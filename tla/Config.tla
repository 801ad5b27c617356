------------------------------- MODULE Config -------------------------------
(***************************************************************************)
(* How the service comes up: internal/config/config.go reads, parses and   *)
(* validates the environment, and run of cmd/server/main.go builds what it *)
(* asks for.                                                               *)
(*                                                                         *)
(* A variable is the process environment's, or else the .env file's.       *)
(* Failures are values: the code neither retries nor exits on its own.     *)
(***************************************************************************)
EXTENDS Lists, Integers

CONSTANTS
  Environments,  \* what the two sources may hold, as pairs
  Absent, Empty, \* a variable that is not there, or is set to ""
  Junk,          \* text that does not parse
  Blank          \* a list entry of spaces

VARIABLES
  process,  \* the process environment
  dotenv,   \* the .env file
  stage,    \* how far run has come
  cfg,      \* the configuration it goes by
  errs      \* the variables its error names

configVars == <<process, dotenv, stage, cfg, errs>>

IntVars  == {"PIPELINE_WORKERS", "PIPELINE_QUEUE_SIZE", "MAX_AUDIO_BYTES",
             "OPENAI_MAX_RETRIES"}
DurVars  == {"SERVER_READ_TIMEOUT", "SERVER_WRITE_TIMEOUT",
             "SERVER_SHUTDOWN_TIMEOUT", "OPENAI_REQUEST_TIMEOUT",
             "PIPELINE_PROCESSING_TIMEOUT"}
NameVars == {"DESTINATION", "LOG_FORMAT", "LOG_LEVEL"}  \* whatever their case
TextVars == {"PORT", "API_KEY", "OPENAI_API_KEY", "OPENAI_BASE_URL",
             "OPENAI_TRANSCRIPTION_MODEL", "OPENAI_ANALYSIS_MODEL",
             "GOOGLE_SHEETS_SPREADSHEET_ID", "GOOGLE_SHEETS_SHEET_NAME",
             "GOOGLE_APPLICATION_CREDENTIALS"} \cup NameVars
Var == IntVars \cup DurVars \cup TextVars \cup {"ALLOWED_AUDIO_TYPES"}

Default ==
  [v \in Var |->
     CASE v = "PIPELINE_WORKERS" -> 4
       [] v = "PIPELINE_QUEUE_SIZE" -> 32
       [] v = "MAX_AUDIO_BYTES" -> 26214400
       [] v = "OPENAI_MAX_RETRIES" -> 2
       [] v \in {"SERVER_READ_TIMEOUT", "SERVER_WRITE_TIMEOUT"} -> 15
       [] v = "SERVER_SHUTDOWN_TIMEOUT" -> 30
       [] v = "OPENAI_REQUEST_TIMEOUT" -> 60
       [] v = "PIPELINE_PROCESSING_TIMEOUT" -> 120
       [] v = "PORT" -> "8080"
       [] v = "DESTINATION" -> "log"
       [] v = "LOG_FORMAT" -> "json"
       [] v = "LOG_LEVEL" -> "info"
       [] v = "OPENAI_BASE_URL" -> "https://api.openai.com/v1"
       [] v = "OPENAI_TRANSCRIPTION_MODEL" -> "whisper-1"
       [] v = "OPENAI_ANALYSIS_MODEL" -> "gpt-4o-mini"
       [] v = "GOOGLE_SHEETS_SHEET_NAME" -> "Voicelines"
       [] v = "ALLOWED_AUDIO_TYPES" -> <<"audio/mpeg", "audio/wav">>
       [] OTHER -> Empty]

Entries(list) == {list[i] : i \in DOMAIN list}

\* What a number, a duration or a list may be set to.
ASSUME ConfigAssumption ==
  /\ \A e \in Environments : \A source \in {e[1], e[2]} :
       /\ \A v \in IntVars \cup DurVars : source[v] \in Int \cup {Junk, Empty, Absent}
       /\ source["ALLOWED_AUDIO_TYPES"] \in Seq(STRING \cup {Blank}) \cup {Empty, Absent}
  /\ Junk \notin {Empty, Absent}
  /\ Blank \notin Entries(Default["ALLOWED_AUDIO_TYPES"])

Init ==
  /\ \E e \in Environments : process = e[1] /\ dotenv = e[2]
  /\ stage = "start"
  /\ cfg = Default
  /\ errs = {}

-----------------------------------------------------------------------------
\* godotenv.Load sets what the process environment lacks.
Env(v) == IF process[v] # Absent THEN process[v] ELSE dotenv[v]

IsSet(v) == Env(v) \notin {Absent, Empty}

Malformed == {v \in IntVars \cup DurVars : Env(v) = Junk}

Lower(t) == CASE t = "SHEETS" -> "sheets" [] t = "TEXT" -> "text"
              [] t = "DEBUG" -> "debug" [] OTHER -> t

TrimRight(t) == IF t = "https://llm/" THEN "https://llm" ELSE t

\* A text as it is kept: a name in lower case, the URL without a slash at its end.
Normal(v, t) == CASE v \in NameVars -> Lower(t)
                  [] v = "OPENAI_BASE_URL" -> TrimRight(t)
                  [] OTHER -> t

\* str, intVal, int64Val, dur and strSlice.
Read(v) ==
  IF ~IsSet(v) \/ v \in Malformed THEN Default[v]
  ELSE IF v = "ALLOWED_AUDIO_TYPES"
       THEN LET out == Only(Env(v), Entries(Env(v)) \ {Blank})
            IN IF out = <<>> THEN Default[v] ELSE out
  ELSE Normal(v, Env(v))

\* Mutant: Load stops at the first error.
LoadFailsFast ==
  /\ stage = "start"
  /\ cfg' = [v \in Var |-> Read(v)]
  /\ IF Malformed = {} THEN errs' = {} ELSE \E v \in Malformed : errs' = {v}
  /\ stage' = IF errs' = {} THEN "loaded" ELSE "failed"
  /\ UNCHANGED <<process, dotenv>>

\* Mutant: a malformed variable is logged and its default used.
LoadForgives ==
  /\ stage = "start"
  /\ cfg' = [v \in Var |-> Read(v)]
  /\ stage' = "loaded"
  /\ UNCHANGED <<process, dotenv, errs>>

\* Load: the loader reads every variable and keeps all its errors.
Load ==
  /\ stage = "start"
  /\ cfg' = [v \in Var |-> Read(v)]
  /\ errs' = Malformed
  /\ stage' = IF errs' = {} THEN "loaded" ELSE "failed"
  /\ UNCHANGED <<process, dotenv>>

\* What validate rejects of a variable by itself.
RejectsEach ==
  {v \in {"PIPELINE_WORKERS", "PIPELINE_QUEUE_SIZE", "MAX_AUDIO_BYTES"} : cfg[v] < 1}
  \cup {v \in {"OPENAI_API_KEY"} : cfg[v] = Empty}
  \cup {v \in {"DESTINATION"} : cfg[v] \notin {"log", "sheets"}}
  \cup {v \in {"LOG_FORMAT"} : cfg[v] \notin {"json", "text"}}

\* validate; its error names the first it rejects.
Rejects ==
  RejectsEach \cup {v \in {"GOOGLE_SHEETS_SPREADSHEET_ID"} :
                     cfg["DESTINATION"] = "sheets" /\ cfg[v] = Empty}

Validate ==
  /\ stage = "loaded"
  /\ IF Rejects = {} THEN errs' = {} ELSE \E v \in Rejects : errs' = {v}
  /\ stage' = IF Rejects = {} THEN "valid" ELSE "failed"
  /\ UNCHANGED <<process, dotenv, cfg>>

\* newDestination: the sheets adapter may not find its credentials; the pool
\* starts only after it.
Serve ==
  /\ stage = "valid"
  /\ stage' = "serving"
  /\ UNCHANGED <<process, dotenv, cfg, errs>>

DestinationFails ==
  /\ stage = "valid"
  /\ cfg["DESTINATION"] = "sheets"
  /\ stage' = "failed"
  /\ errs' = {"DESTINATION"}
  /\ UNCHANGED <<process, dotenv, cfg>>

Next == Load \/ Validate \/ Serve \/ DestinationFails

Spec == Init /\ [][Next]_configVars

-----------------------------------------------------------------------------
\* v is told t: by the process environment, and by the .env file only if the
\* environment does not have v at all.
Told(v, t) == IF process[v] # Absent THEN process[v] = t ELSE dotenv[v] = t

Untold(v) == Told(v, Absent) \/ Told(v, Empty)

\* A service that came up goes by what it was told, of every variable: what it
\* was set to is in force (a name in lower case, the URL without a final slash),
\* and its default only if it was not set or set to nothing.  In particular no
\* malformed value is replaced by a default, and no token that closes the API is
\* lost.  The allowlist is the exception, in a way its comment ("applied when
\* ALLOWED_AUDIO_TYPES is unset") does not say: set to blanks alone it has its
\* default, else exactly its entries that are not blank.
ServesAsTold ==
  stage = "serving" =>
    /\ \A v \in Var \ {"ALLOWED_AUDIO_TYPES"} :
         \/ Untold(v) /\ cfg[v] = Default[v]
         \/ \E t \in {process[v], dotenv[v]} \ {Absent, Empty} :
              Told(v, t) /\ cfg[v] = Normal(v, t)
    /\ LET types == "ALLOWED_AUDIO_TYPES"
       IN \/ Untold(types) /\ cfg[types] = Default[types]
          \/ \E t \in {process[types], dotenv[types]} \ {Absent, Empty} :
               /\ Told(types, t)
               /\ IF Entries(t) \subseteq {Blank} THEN cfg[types] = Default[types]
                  ELSE Entries(cfg[types]) = Entries(t) \ {Blank}

\* A service that came up meets what the other modules assume: a worker, a
\* buffer, a limit that is positive, an allowlist that is not empty and has no
\* blank entry, and a destination with all it needs.
ServesProperly ==
  stage = "serving" =>
    /\ cfg["PIPELINE_WORKERS"] >= 1 /\ cfg["PIPELINE_QUEUE_SIZE"] >= 1
    /\ cfg["MAX_AUDIO_BYTES"] >= 1
    /\ cfg["ALLOWED_AUDIO_TYPES"] # <<>>
    /\ Blank \notin Entries(cfg["ALLOWED_AUDIO_TYPES"])
    /\ \/ cfg["DESTINATION"] = "log"
       \/ cfg["DESTINATION"] = "sheets" /\ cfg["GOOGLE_SHEETS_SPREADSHEET_ID"] # Empty

\* A service that does not come up says why.  Its error has "every malformed
\* variable at once", so whoever mends what it names is not sent back for
\* another; otherwise it names what was rejected, or the sheets it could not
\* reach; and since "only OPENAI_API_KEY is mandatory", one that has its key
\* fails only over something it was told.
FailureExplained ==
  stage = "failed" =>
    /\ errs # {}
    /\ Malformed # {} => errs = Malformed
    /\ Malformed = {} =>
         \/ errs \subseteq Rejects
         \/ errs = {"DESTINATION"} /\ cfg["DESTINATION"] = "sheets"
    /\ IsSet("OPENAI_API_KEY") => \E v \in Var \ {"OPENAI_API_KEY"} : IsSet(v)
=============================================================================
