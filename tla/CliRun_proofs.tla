--------------------------- MODULE CliRun_proofs ---------------------------
(***************************************************************************)
(* Theorems of CliRun: types, the order of the sources of credentials, the *)
(* exit status and the file, the end of the ticker; for any set of flags,  *)
(* environments and files, and any number of signals.                      *)
(***************************************************************************)
EXTENDS CliRun, TLAPS

Early == {"credentials", "region", "validate"}

(* Until they are resolved, the credentials are what the flags say.        *)
Sources ==
    /\ pc = "credentials" =>
          /\ id = IF given.access THEN "flag" ELSE "none"
          /\ secret = IF given.secret THEN "flag" ELSE "none"
    /\ SourceOrder

(* main, its exit status, the signal handler and the ticker.  The ticker   *)
(* is gone when main reports.                                              *)
Phases ==
    /\ exit = -1 <=> pc # "exited"
    /\ handler = "off" => pc \in Early \cup {"exited"}
    /\ pc \in {"report", "leave"} => ticker = "done"
    /\ pc \in Early \cup {"call", "download"} => outcome = "running"
    /\ pc \in {"credentials", "region"} => mode = "single"

(* What the output path of a single file holds.                            *)
File ==
    /\ exit = 0 => outcome = "ok"
    /\ exit \in {1, 130} => outcome # "ok"
    /\ mode = "single" =>
          /\ outcome = "running" => out = Prior
          /\ outcome = "ok" => out = Object
          /\ outcome = "failed" => out # Object

Control == Phases /\ File /\ TickerSilent

-----------------------------------------------------------------------------
(* Types.                                                                  *)

LEMMA TypesInitial == Init => TypeOK
<1> SUFFICES ASSUME Init PROVE TypeOK
  OBVIOUS
<1>1. {id, secret} \subseteq {"none", "flag", "profile", "env", "default"}
  BY DEF Init
<1>2. signals \in 0 .. MaxSignals
  BY CliAssumption DEF Init
<1> QED
  BY <1>1, <1>2 DEF Init, TypeOK, Download!Init

LEMMA TypesStep == TypeOK /\ [Next]_vars => TypeOK'
<1> SUFFICES ASSUME TypeOK, [Next]_vars PROVE TypeOK'
  OBVIOUS
<1> USE DEF config, control
<1>1. CASE ResolveCredentials
  <2>1. {id', secret'} \subseteq {"none", "flag", "profile", "env", "default"}
    BY <1>1 DEF ResolveCredentials, Fill, Source, TypeOK
  <2> QED
    BY <1>1, <2>1 DEF ResolveCredentials, TypeOK
<1>2. CASE ProfileFails
  BY <1>2 DEF ProfileFails, Exit, TypeOK
<1>3. CASE ResolveRegion
  BY <1>3 DEF ResolveRegion, RegionSource, TypeOK
<1>4. CASE ValidateFails
  BY <1>4 DEF ValidateFails, Exit, TypeOK
<1>5. CASE Notify \/ Call
  BY <1>5 DEF Notify, Call, TypeOK
<1>6. CASE DownloadReturns
  BY <1>6 DEF DownloadReturns, Download!Install, Download!GiveUp, TypeOK
<1>7. CASE StopTicker \/ JoinTicker \/ Succeed
  BY <1>7 DEF StopTicker, JoinTicker, Succeed, TypeOK
<1>8. CASE Fail
  BY <1>8 DEF Fail, RemoveOutput, TypeOK
<1>9. CASE Leave
  BY <1>9 DEF Leave, Exit, ExitStatus, TypeOK
<1>10. CASE Draw \/ TickerEnds
  BY <1>10 DEF Draw, TickerEnds, TypeOK
<1>11. CASE Signal
  <2>1. signals' \in 0 .. MaxSignals
    BY <1>11, CliAssumption DEF Signal, TypeOK
  <2> QED
    BY <1>11, <2>1 DEF Signal, Exit, Buffered, TypeOK
<1>12. CASE HandleSignal
  BY <1>12 DEF HandleSignal, TypeOK
<1>13. CASE UNCHANGED vars
  BY <1>13 DEF vars, TypeOK
<1> QED
  BY <1>1, <1>2, <1>3, <1>4, <1>5, <1>6, <1>7, <1>8, <1>9, <1>10, <1>11, <1>12, <1>13
     DEF Next, MainStep, Exited

(* Every variable keeps its type; the handler's channel never holds more   *)
(* than one signal.                                                        *)
THEOREM RunTypes == Spec => []TypeOK
  BY TypesInitial, TypesStep, PTL DEF Spec

-----------------------------------------------------------------------------
(* Control: exit status, file, terminal.                                   *)

LEMMA ControlInitial == Init => Control
  BY DEF Init, Download!Init, Control, Phases, File, TickerSilent, Early

LEMMA ControlStep == TypeOK /\ Control /\ [Next]_vars => Control'
<1> SUFFICES ASSUME TypeOK, Control, [Next]_vars PROVE Control'
  OBVIOUS
<1> USE DEF config, control, Early
<1>0. /\ exit \in {-1, 0, 1, 130} /\ outcome \in {"running", "ok", "failed"}
      /\ mode \in {"single", "prefix"} /\ Phases /\ File /\ TickerSilent
  BY DEF TypeOK, Control
<1>1. CASE ResolveCredentials
  BY <1>0, <1>1 DEF ResolveCredentials, Control, Phases, File, TickerSilent
<1>2. CASE ProfileFails
  BY <1>0, <1>2 DEF ProfileFails, Exit, Control, Phases, File, TickerSilent
<1>3. CASE ResolveRegion
  BY <1>0, <1>3 DEF ResolveRegion, Control, Phases, File, TickerSilent
<1>4. CASE ValidateFails
  BY <1>0, <1>4 DEF ValidateFails, Exit, Control, Phases, File, TickerSilent
<1>5. CASE Notify \/ Call
  BY <1>0, <1>5 DEF Notify, Call, Control, Phases, File, TickerSilent
<1>6. CASE DownloadReturns
  <2>1. mode = "single" => /\ outcome' = "ok" => out' = Object
                           /\ outcome' = "failed" => out' # Object
                           /\ outcome' # "running"
    BY <1>0, <1>6, CliAssumption
       DEF DownloadReturns, Download!Install, Download!GiveUp, Phases, File
  <2>2. mode # "single" => outcome' \in {"ok", "failed"}
    BY <1>6 DEF DownloadReturns
  <2> QED
    BY <1>0, <1>6, <2>1, <2>2 DEF DownloadReturns, Control, Phases, File, TickerSilent
<1>7. CASE StopTicker \/ JoinTicker \/ Succeed
  BY <1>0, <1>7 DEF StopTicker, JoinTicker, TickerDone, Succeed, Control, Phases, File, TickerSilent
<1>8. CASE Fail
  BY <1>0, <1>8, CliAssumption DEF Fail, RemoveOutput, Control, Phases, File, TickerSilent
<1>9. CASE Leave
  BY <1>0, <1>9 DEF Leave, Exit, ExitStatus, Control, Phases, File, TickerSilent
<1>10. CASE Draw \/ TickerEnds
  BY <1>0, <1>10 DEF Draw, TickerEnds, Control, Phases, File, TickerSilent
<1>11. CASE Signal
  BY <1>0, <1>11 DEF Signal, Exit, Control, Phases, File, TickerSilent
<1>12. CASE HandleSignal
  BY <1>0, <1>12 DEF HandleSignal, Control, Phases, File, TickerSilent
<1>13. CASE UNCHANGED vars
  BY <1>0, <1>13 DEF vars, Control, Phases, File, TickerSilent
<1> QED
  BY <1>1, <1>2, <1>3, <1>4, <1>5, <1>6, <1>7, <1>8, <1>9, <1>10, <1>11, <1>12, <1>13
     DEF Next, MainStep, Exited

LEMMA ControlInvariant == Spec => []Control
  BY ControlInitial, ControlStep, RunTypes, PTL DEF Spec

(* The exit status is 0 when, and only when, the run put the object at the *)
(* output path of a single file.                                           *)
THEOREM ExitTellsFileHolds == Spec => []ExitTellsFile
<1>1. TypeOK /\ Control => ExitTellsFile
  BY CliAssumption DEF TypeOK, Control, Phases, File, ExitTellsFile
<1> QED
  BY <1>1, RunTypes, ControlInvariant, PTL

(* Nothing the ticker writes comes after main's summary or error.          *)
THEOREM TickerSilentHolds == Spec => []TickerSilent
<1>1. Control => TickerSilent
  BY DEF Control
<1> QED
  BY <1>1, ControlInvariant, PTL

-----------------------------------------------------------------------------
(* The sources of the credentials.                                         *)

LEMMA SourcesInitial == Init => Sources
  BY DEF Init, Sources, SourceOrder

(* What fills a half is the first source below the flags that applies, and *)
(* one above it would have had to apply.                                   *)
LEMMA FilledInOrder ==
    ASSUME given \in AllGivens, ~ProfileUnusable
    PROVE  /\ Source \in {"profile", "env", "default"}
           /\ Source = "env" => ~given.profile
           /\ Source = "default" => ~given.profile /\ given.env # "pair"
           /\ Source = "profile" => given.profile
           /\ Source = "env" => given.env = "pair"
  BY DEF Source

LEMMA SourcesStep == TypeOK /\ Sources /\ [Next]_vars => Sources'
<1> SUFFICES ASSUME TypeOK, Sources, [Next]_vars PROVE Sources'
  OBVIOUS
<1>1. given' = given
  BY DEF Next, MainStep, ResolveCredentials, ProfileFails, ResolveRegion, ValidateFails, Notify,
         Call, DownloadReturns, StopTicker, JoinTicker, Succeed, Fail, Leave, Draw, TickerEnds,
         Signal, HandleSignal, Exited, config, vars
<1>2. CASE ResolveCredentials
  <2>1. pc' = "region" /\ given \in AllGivens /\ ~ProfileUnusable
    BY <1>2, GivenAssumption DEF ResolveCredentials, TypeOK
  <2>2. id' = Fill(id, Holds(Source) # "unusable")
        /\ id = IF given.access THEN "flag" ELSE "none"
    BY <1>2 DEF ResolveCredentials, Sources
  <2>3. secret' = Fill(secret, Holds(Source) = "pair")
        /\ secret = IF given.secret THEN "flag" ELSE "none"
    BY <1>2 DEF ResolveCredentials, Sources
  <2>4. id' \in {"none", "flag"} \/ (id' = Source /\ ~given.access)
    BY <2>2 DEF Fill
  <2>5. secret' \in {"none", "flag"} \/ (secret' = Source /\ ~given.secret)
    BY <2>3 DEF Fill
  <2>6. \A s \in {"none", "flag"}, half \in {"id", "secret"} :
           Above(s) \cap Offers(half)' = {}
    BY DEF Above
  <2>7. ~given.access => Above(Source) \cap Offers("id")' = {}
    BY <1>1, <2>1, FilledInOrder DEF Above, Offers
  <2>8. ~given.secret => Above(Source) \cap Offers("secret")' = {}
    BY <1>1, <2>1, FilledInOrder DEF Above, Offers
  <2>9. Above(id') \cap Offers("id")' = {}
    BY <2>4, <2>6, <2>7
  <2>10. Above(secret') \cap Offers("secret")' = {}
    BY <2>5, <2>6, <2>8
  <2> QED
    BY <2>1, <2>9, <2>10 DEF Sources, SourceOrder
<1>3. CASE ~ResolveCredentials
  <2>1. \/ pc' = "exited"
        \/ pc # "credentials" /\ pc' # "credentials" /\ pc # "exited"
           /\ UNCHANGED <<id, secret>>
        \/ UNCHANGED <<pc, id, secret>>
    BY <1>3 DEF Next, MainStep, ProfileFails, ResolveRegion, ValidateFails, Notify,
         Call, DownloadReturns, StopTicker, JoinTicker, Succeed, Fail, Leave, Draw, TickerEnds,
         Signal, HandleSignal, Exited, Exit, config, vars
  <2>2. \A half \in {"id", "secret"} : Offers(half)' = Offers(half)
    BY <1>1 DEF Offers
  <2> QED
    BY <1>1, <2>1, <2>2 DEF Sources, SourceOrder, Above
<1> QED
  BY <1>2, <1>3

(* A half of the credentials never comes from a source while one above it  *)
(* has that half.                                                          *)
THEOREM SourceOrderHolds == Spec => []SourceOrder
<1>1. Sources => SourceOrder
  BY DEF Sources
<1> QED
  BY <1>1, SourcesInitial, SourcesStep, RunTypes, PTL DEF Spec
=============================================================================
