------------------------------- MODULE CliRun -------------------------------
(***************************************************************************)
(* One run of the program: main resolves credentials, region and mode,     *)
(* checks its flags, installs the signal handler and starts the progress   *)
(* ticker; Download or DownloadPrefix returns; main waits for the ticker,  *)
(* reports, and exits.                                                     *)
(*                                                                         *)
(* Of Download this module keeps AtomicDownload's Install and GiveUp, of   *)
(* DownloadPrefix what it returns.  Values are represented by the source   *)
(* they come from.                                                         *)
(***************************************************************************)
EXTENDS Integers, Sequences

CONSTANTS
    Object,         \* the object, put at the output path by this run
    Prior,          \* what the output path holds before the run, a complete file or none
    Nothing,        \* no file at the output path
    Givens,         \* the flags, environments and files that are considered
    MaxSignals      \* bound: signals sent to the program

ASSUME CliAssumption ==
    /\ Object \notin {Prior, Nothing}
    /\ MaxSignals \in Nat

VARIABLES
    given,          \* flags, environment and files that the program finds
    pc,             \* where main stands
    id, secret,     \* sources of cfg.AccessKey and cfg.SecretKey
    region,         \* source of cfg.Region
    mode,           \* "single" or "prefix"
    signals,        \* signals sent
    sigCh,          \* signals in the handler's channel
    handler,        \* the signal handler's goroutine: "off", "waiting" or "gone"
    interrupted,    \* ctx is cancelled
    ticker,         \* progressTicker: "off", "running" or "done"
    stopped,        \* stopTicker is closed
    screen,         \* what main, the ticker or the handler wrote last on standard error
    outcome,        \* Download's or DownloadPrefix's: "running", "ok" or "failed"
    exit,           \* exit status, -1 while the program runs
    out             \* what the output path holds

vars == <<given, pc, id, secret, region, mode, signals, sigCh, handler, interrupted, ticker,
          stopped, screen, outcome, exit, out>>
config == <<given, id, secret, region, mode>>
control == <<signals, sigCh, handler, interrupted>>

Download == INSTANCE AtomicDownload WITH Objects <- {Object}

(* A profile of ~/.aws/credentials, or the environment: without an access  *)
(* key id (or not there at all), without a secret, or with both.           *)
Profiles == {"unusable", "idonly", "pair"}

AllGivens ==
    [access : BOOLEAN, secret : BOOLEAN,                 \* --access-key, --secret-key
     profile : BOOLEAN,                                  \* --profile
     named : Profiles, default : Profiles,               \* that profile, and [default]
     env : Profiles,                                     \* AWS_ variables
     regions : SUBSET {"flag", "env", "config"},         \* where a region is set
     key : {"none", "object", "slash"},                  \* --key
     prefix : BOOLEAN,                                   \* --prefix
     complete : BOOLEAN]                                 \* endpoint, bucket and output

ASSUME GivenAssumption == Givens \subseteq AllGivens

Init ==
    /\ given \in Givens
    /\ pc = "credentials"
    /\ id = IF given.access THEN "flag" ELSE "none"
    /\ secret = IF given.secret THEN "flag" ELSE "none"
    /\ region = "none"
    /\ mode = "single"
    /\ signals = 0
    /\ sigCh = 0
    /\ handler = "off"
    /\ interrupted = FALSE
    /\ ticker = "off"
    /\ stopped = FALSE
    /\ screen = "empty"
    /\ exit = -1
    /\ Download!Init

Exit(status, text) ==
    /\ pc' = "exited"
    /\ exit' = status
    /\ screen' = text

-----------------------------------------------------------------------------
(* --profile, environment variables, [default]: the first that applies. A  *)
(* profile without an access key id is an error, one without a secret not; *)
(* the environment counts only as a pair.                                  *)
EnvFirst ==                                                     \* mutant
    IF given.env = "pair" THEN "env" ELSE IF given.profile THEN "profile" ELSE "default"
Source == IF given.profile THEN "profile" ELSE IF given.env = "pair" THEN "env" ELSE "default"
Holds(source) ==
    CASE source = "profile" -> given.named
      [] source = "env" -> "pair"
      [] source = "default" -> given.default

(* Not looked at when both flags are given. *)
ProfileUnusable ==
    ~(given.access /\ given.secret) /\ Source = "profile" /\ Holds(Source) = "unusable"

(* What a flag has set stays; the other half is taken from the source.     *)
Fill(half, offered) == IF half = "none" /\ offered THEN Source ELSE half

ResolveCredentials ==
    /\ pc = "credentials"
    /\ ~ProfileUnusable
    /\ id' = Fill(id, Holds(Source) # "unusable")
    /\ secret' = Fill(secret, Holds(Source) = "pair")
    /\ pc' = "region"
    /\ UNCHANGED <<given, region, mode, control, ticker, stopped, screen, outcome, exit, out>>

(* log.Fatalf when the profile asked for cannot be loaded. *)
ProfileFails ==
    /\ pc = "credentials"
    /\ ProfileUnusable
    /\ Exit(1, "error")
    /\ UNCHANGED <<config, control, ticker, stopped, outcome, out>>

(* LoadAWSRegion: the environment comes before ~/.aws/config.              *)
RegionSource ==
    IF "flag" \in given.regions THEN "flag"
    ELSE IF "env" \in given.regions THEN "env"
    ELSE IF "config" \in given.regions THEN "config" ELSE "default"

ResolveRegion ==
    /\ pc = "region"
    /\ region' = RegionSource
    /\ mode' = IF given.prefix \/ given.key = "slash" THEN "prefix" ELSE "single"
    /\ pc' = "validate"
    /\ UNCHANGED <<given, id, secret, control, ticker, stopped, screen, outcome, exit, out>>

Valid == given.complete /\ (mode = "prefix" \/ given.key # "none")

ValidateFails ==
    /\ pc = "validate"
    /\ ~Valid
    /\ Exit(1, "error")
    /\ UNCHANGED <<config, control, ticker, stopped, outcome, out>>

(* signal.Notify and the handler's goroutine; then the ticker's goroutine  *)
(* and the call of Download or DownloadPrefix.                             *)
Notify ==
    /\ pc = "validate"
    /\ Valid
    /\ handler' = "waiting"
    /\ pc' = "call"
    /\ UNCHANGED <<config, signals, sigCh, interrupted, ticker, stopped, screen, outcome, exit, out>>

Call ==
    /\ pc = "call"
    /\ ticker' = "running"
    /\ pc' = "download"
    /\ UNCHANGED <<config, control, stopped, screen, outcome, exit, out>>

-----------------------------------------------------------------------------
(* Download returns: AtomicDownload's outcomes.  DownloadPrefix returns    *)
(* with or without an error; its files are not at the output path.         *)
DownloadReturns ==
    /\ pc = "download"
    /\ IF mode = "single"
       THEN Download!Install \/ Download!GiveUp
       ELSE outcome' \in {"ok", "failed"} /\ UNCHANGED out
    /\ pc' = "stop"
    /\ UNCHANGED <<config, control, ticker, stopped, screen, exit>>

(* close(stopTicker) *)
StopTicker ==
    /\ pc = "stop"
    /\ stopped' = TRUE
    /\ pc' = "join"
    /\ UNCHANGED <<config, control, ticker, screen, outcome, exit, out>>

(* <-tickerDone, and the newline after it *)
NoJoin == TRUE                                                  \* mutant
TickerDone == ticker = "done"

JoinTicker ==
    /\ pc = "join"
    /\ TickerDone
    /\ pc' = "report"
    /\ screen' = "newline"
    /\ UNCHANGED <<config, control, ticker, stopped, outcome, exit, out>>

(* Success: the summary. *)
Succeed ==
    /\ pc = "report"
    /\ outcome = "ok"
    /\ screen' = "summary"
    /\ pc' = "leave"
    /\ UNCHANGED <<config, control, ticker, stopped, outcome, exit, out>>

(* Failure: the error, and of a single file the output path is removed,    *)
(* whatever it held; a removal that fails is not noticed.                  *)
RemoveOutput == IF mode = "single" THEN {Nothing, out} ELSE {out}

Fail ==
    /\ pc = "report"
    /\ outcome = "failed"
    /\ screen' = "error"
    /\ out' \in RemoveOutput
    /\ pc' = "leave"
    /\ UNCHANGED <<config, control, ticker, stopped, outcome, exit>>

(* os.Exit(1), or the return of main. *)
AlwaysZero == 0                                                 \* mutant
ExitStatus == IF outcome = "ok" THEN 0 ELSE 1

Leave ==
    /\ pc = "leave"
    /\ Exit(ExitStatus, screen)
    /\ UNCHANGED <<config, control, ticker, stopped, outcome, out>>

-----------------------------------------------------------------------------
(* progressTicker: a line every 500 ms, until the stop channel is closed.  *)
Draw ==
    /\ ticker = "running"
    /\ exit = -1
    /\ screen' = "progress"
    /\ UNCHANGED <<config, pc, control, ticker, stopped, outcome, exit, out>>

NotLooking == FALSE                                             \* mutant
StopSeen == stopped

TickerEnds ==
    /\ ticker = "running"
    /\ exit = -1
    /\ StopSeen
    /\ screen' = "erased"
    /\ ticker' = "done"
    /\ UNCHANGED <<config, pc, control, stopped, outcome, exit, out>>

-----------------------------------------------------------------------------
(* A signal kills the program until it is asked for; then one is buffered  *)
(* for the handler, and any other is lost.                                 *)
Unbounded == sigCh + 1                                          \* mutant
Buffered == 1

Signal ==
    /\ signals < MaxSignals
    /\ exit = -1
    /\ signals' = signals + 1
    /\ IF handler = "off"
       THEN Exit(130, screen) /\ UNCHANGED sigCh
       ELSE sigCh' = Buffered /\ UNCHANGED <<pc, exit, screen>>
    /\ UNCHANGED <<config, handler, interrupted, ticker, stopped, outcome, out>>

(* The handler takes one signal, says so on standard error whatever main   *)
(* has written there, cancels, and is gone.                                *)
HandleSignal ==
    /\ handler = "waiting"
    /\ exit = -1
    /\ sigCh = 1
    /\ sigCh' = 0
    /\ interrupted' = TRUE
    /\ handler' = "gone"
    /\ screen' = "signal"
    /\ UNCHANGED <<config, pc, signals, ticker, stopped, outcome, exit, out>>

Exited == exit # -1 /\ UNCHANGED vars

MainStep ==
    \/ ResolveCredentials \/ ProfileFails \/ ResolveRegion \/ ValidateFails \/ Notify \/ Call
    \/ StopTicker \/ JoinTicker \/ Succeed \/ Fail \/ Leave

Next ==
    \/ MainStep \/ DownloadReturns
    \/ Draw \/ TickerEnds
    \/ Signal \/ HandleSignal
    \/ Exited

Spec == Init /\ [][Next]_vars

(* The goroutines go on; a select whose stop channel is closed chooses it, *)
(* because the other channel is empty for 500 ms at a time.  A download    *)
(* need not return unless it is cancelled (ObjectDownload's                *)
(* CancelTerminates, PrefixDownload's CancelReturns).                      *)
FairSpec ==
    /\ Spec
    /\ WF_vars(MainStep)
    /\ WF_vars(DownloadReturns /\ interrupted)
    /\ WF_vars(TickerEnds)
    /\ WF_vars(HandleSignal)

-----------------------------------------------------------------------------
(* Types; the handler's channel holds one signal at most. *)
TypeOK ==
    /\ given \in Givens
    /\ pc \in {"credentials", "region", "validate", "call", "download", "stop", "join",
               "report", "leave", "exited"}
    /\ {id, secret} \subseteq {"none", "flag", "profile", "env", "default"}
    /\ region \in {"none", "flag", "env", "config", "default"}
    /\ mode \in {"single", "prefix"}
    /\ signals \in 0 .. MaxSignals
    /\ sigCh \in {0, 1}
    /\ handler \in {"off", "waiting", "gone"}
    /\ {interrupted, stopped} \subseteq BOOLEAN
    /\ ticker \in {"off", "running", "done"}
    /\ screen \in {"empty", "progress", "erased", "newline", "summary", "error",
                  "signal"}
    /\ outcome \in {"running", "ok", "failed"}
    /\ exit \in {-1, 0, 1, 130}
    /\ out \in {Object, Prior, Nothing}

(* The order of src/README.md, "Authentication Priority": a source is used *)
(* for a half of the credentials only when no source above it offers that  *)
(* half.  The environment offers a half only together with the other       *)
(* (LoadAWSCredentialsFromEnv), so a lone AWS_ACCESS_KEY_ID is passed over;*)
(* a --profile that cannot be loaded is not passed over for a lower source.*)
Offers(half) ==
    {s \in {"flag", "profile", "env", "default"} :
        \/ s = "flag" /\ IF half = "id" THEN given.access ELSE given.secret
        \/ s = "profile" /\ given.profile /\ (half = "id" \/ given.named = "pair")
        \/ s = "env" /\ given.env = "pair"
        \/ s = "default" /\ given.default \in (IF half = "id" THEN {"idonly", "pair"} ELSE {"pair"})}
Above(s) ==
    CASE s = "flag" -> {}
      [] s = "profile" -> {"flag"}
      [] s = "env" -> {"flag", "profile"}
      [] s = "default" -> {"flag", "profile", "env"}
      [] OTHER -> {}

SourceOrder ==
    pc \notin {"credentials", "exited"} =>
        /\ Above(id) \cap Offers("id") = {}
        /\ Above(secret) \cap Offers("secret") = {}

(* The exit status tells the truth about the file, however the run ended:  *)
(* it is 0 when, and only when, this run put the object at the output path *)
(* (the os.Exit of main's error paths).                                    *)
ExitTellsFile == (mode = "single" /\ exit # -1) => (exit = 0 <=> out = Object)

(* Once main reports, the ticker writes nothing any more: it neither draws *)
(* over the summary or the error nor erases it (<-tickerDone).  Of the     *)
(* handler's line nothing is said; it may come last.                       *)
TickerSilent ==
    (pc \in {"report", "leave"} \/ exit \in {0, 1}) => screen \notin {"progress", "erased"}

(* After a signal the program ends, the ticker's handshake included.       *)
SignalEnds == signals > 0 ~> exit # -1
=============================================================================
