--------------------------- MODULE Config_proofs ----------------------------
(***************************************************************************)
(* The start, for any environment: what the service serves by, and what a  *)
(* failed start says, follow from how far the start has come.              *)
(***************************************************************************)
EXTENDS Config, Lists_proofs

Stage == {"start", "loaded", "valid", "serving", "failed"}

\* An error names what Load could not parse, or else what validate or
\* newDestination objected to.
Explained ==
  \/ Malformed # {} /\ errs = Malformed
  \/ Malformed = {} /\ errs # {} /\ errs \subseteq Rejects
  \/ Malformed = {} /\ errs = {"DESTINATION"} /\ cfg["DESTINATION"] = "sheets"

StartInv ==
  /\ \E e \in Environments : process = e[1] /\ dotenv = e[2]
  /\ stage \in Stage
  /\ stage # "start" => cfg = [v \in Var |-> Read(v)]
  /\ stage \in {"loaded", "valid", "serving"} => Malformed = {}
  /\ stage \in {"valid", "serving"} => Rejects = {}
  /\ stage = "failed" => Explained

-----------------------------------------------------------------------------
\* The variables that are not parsed are none of those that are.
LEMMA Kinds ==
  /\ \A v \in TextVars \cup {"ALLOWED_AUDIO_TYPES"} : v \in Var /\ v \notin IntVars \cup DurVars
  /\ \A v \in IntVars \cup DurVars : v \in Var /\ v # "ALLOWED_AUDIO_TYPES" /\ v \notin TextVars
BY DEF Var, IntVars, DurVars, TextVars, NameVars

\* What a variable is found to hold.
LEMMA Found ==
  ASSUME StartInv
  PROVE  /\ \A v \in IntVars \cup DurVars : Env(v) \in Int \cup {Junk, Empty, Absent}
         /\ Env("ALLOWED_AUDIO_TYPES") \in Seq(STRING \cup {Blank}) \cup {Empty, Absent}
<1>1. PICK e \in Environments : process = e[1] /\ dotenv = e[2]
  BY DEF StartInv
<1>2. \A source \in {e[1], e[2]} :
       /\ \A v \in IntVars \cup DurVars : source[v] \in Int \cup {Junk, Empty, Absent}
       /\ source["ALLOWED_AUDIO_TYPES"] \in Seq(STRING \cup {Blank}) \cup {Empty, Absent}
  BY ConfigAssumption
<1>3. QED
  BY <1>1, <1>2, ZenonT(40) DEF Env

\* A variable that is set and parses is read as it is, but for the case of a name,
\* the end of the URL and the blanks of the list.
LEMMA ReadsAsSet ==
  ASSUME NEW v \in Var \ {"ALLOWED_AUDIO_TYPES"}, IsSet(v), v \notin Malformed
  PROVE  /\ Read(v) = Normal(v, Env(v))
         /\ v \notin NameVars \cup {"OPENAI_BASE_URL"} => Read(v) = Env(v)
BY DEF Read, Normal

\* A variable that is not set has its default.
LEMMA ReadsDefault ==
  ASSUME NEW v, ~IsSet(v)
  PROVE  Read(v) = Default[v]
BY DEF Read

\* A malformed variable is set.
LEMMA MalformedIsSet ==
  ASSUME NEW v \in Malformed
  PROVE  IsSet(v) /\ v \in Var \ {"OPENAI_API_KEY"}
<1>1. v \in IntVars \cup DurVars /\ Env(v) = Junk
  BY DEF Malformed
<1>2. v # "OPENAI_API_KEY"
  BY <1>1 DEF IntVars, DurVars
<1>3. QED
  BY <1>1, <1>2, Kinds, ConfigAssumption DEF IsSet

\* The defaults are what validate accepts.
LEMMA Defaults ==
  /\ \A v \in {"PIPELINE_WORKERS", "PIPELINE_QUEUE_SIZE", "MAX_AUDIO_BYTES"} :
       Default[v] \in Int /\ ~(Default[v] < 1)
  /\ Default["DESTINATION"] = "log" /\ Default["LOG_FORMAT"] = "json"
<1>1. {"PIPELINE_WORKERS", "PIPELINE_QUEUE_SIZE", "MAX_AUDIO_BYTES", "DESTINATION",
       "LOG_FORMAT"} \subseteq Var
  BY DEF Var, IntVars, TextVars, NameVars
<1>2. /\ Default["PIPELINE_WORKERS"] = 4 /\ Default["PIPELINE_QUEUE_SIZE"] = 32
      /\ Default["MAX_AUDIO_BYTES"] = 26214400
  BY <1>1, SMT DEF Default
<1>3. Default["DESTINATION"] = "log" /\ Default["LOG_FORMAT"] = "json"
  BY <1>1, SMT DEF Default
<1>4. QED
  BY <1>2, <1>3, SMT

\* Numbers are read as numbers, or have a default that is one.
LEMMA ReadsNumber ==
  ASSUME StartInv, NEW v \in {"PIPELINE_WORKERS", "PIPELINE_QUEUE_SIZE", "MAX_AUDIO_BYTES"}
  PROVE  Read(v) \in Int
<1>1. /\ v \in IntVars /\ v \in Var /\ v # "ALLOWED_AUDIO_TYPES"
      /\ v \notin NameVars \cup {"OPENAI_BASE_URL"}
  BY DEF Var, IntVars, NameVars
<1>2. Default[v] \in Int
  BY Defaults
<1>3. CASE IsSet(v) /\ v \notin Malformed
  <2>1. Env(v) \in Int \cup {Junk, Empty, Absent}
    BY <1>1, Found
  <2>2. Env(v) \notin {Junk, Empty, Absent}
    BY <1>1, <1>3 DEF IsSet, Malformed
  <2>3. QED
    BY <1>1, <1>3, <2>1, <2>2, ReadsAsSet
<1>4. QED
  BY <1>2, <1>3 DEF Read

\* The allowlist is the default if nothing or only blanks were set, and else what
\* was set without its blanks.
LEMMA ReadsTypes ==
  ASSUME StartInv
  PROVE  LET types == "ALLOWED_AUDIO_TYPES"
         IN IF IsSet(types) /\ ~(Entries(Env(types)) \subseteq {Blank})
            THEN Entries(Read(types)) = Entries(Env(types)) \ {Blank}
            ELSE Read(types) = Default[types]
<1> DEFINE types == "ALLOWED_AUDIO_TYPES"
           given == Env(types)
           all == Entries(given)
           out == Only(given, all \ {Blank})
<1>1. CASE ~IsSet(types)
  BY <1>1, ReadsDefault
<1>2. CASE IsSet(types)
  <2>1. given \in Seq(STRING \cup {Blank})
    <3>1. given \in Seq(STRING \cup {Blank}) \cup {Empty, Absent}
      BY Found
    <3>2. given \notin {Empty, Absent}
      BY <1>2 DEF IsSet
    <3> HIDE DEF given
    <3>3. QED
      BY <3>1, <3>2
  <2>2. Read(types) = IF out = <<>> THEN Default[types] ELSE out
    <3>1. types \notin Malformed
      BY DEF Malformed, IntVars, DurVars
    <3>2. QED
      BY <1>2, <3>1 DEF Read
  <2> HIDE DEF given
  <2>3. Entries(out) = all \cap (all \ {Blank})
    <3> DEFINE S == all \ {Blank}
    <3> HIDE DEF S
    <3>1. Entries(Only(given, S)) = Entries(given) \cap S
      BY <2>1, OnlyFilters DEF Entries
    <3>2. QED
      BY <3>1 DEF S
  <2>4. out = <<>> <=> Entries(out) = {}
    <3>1. out \in Seq((STRING \cup {Blank}) \cap (all \ {Blank}))
      BY <2>1, OnlyKeeps
    <3> HIDE DEF out
    <3>2. QED
      BY <3>1, EmptyList DEF Entries
  <2> HIDE DEF out, all
  <2>5. CASE all \subseteq {Blank}
    <3>1. out = <<>>
      BY <2>3, <2>4, <2>5
    <3>2. QED
      BY <2>2, <2>5, <3>1 DEF all, given
  <2>6. CASE ~(all \subseteq {Blank})
    <3>1. out # <<>> /\ Entries(out) = all \ {Blank}
      BY <2>3, <2>4, <2>6
    <3>2. QED
      BY <1>2, <2>2, <2>6, <3>1 DEF all, given
  <2>7. QED
    BY <2>5, <2>6
<1>3. QED
  BY <1>1, <1>2

\* The allowlist has an entry, and none that is blank.
LEMMA ReadsList ==
  ASSUME StartInv
  PROVE  LET list == Read("ALLOWED_AUDIO_TYPES")
         IN list # <<>> /\ Blank \notin Entries(list)
<1> DEFINE types == "ALLOWED_AUDIO_TYPES"
           all   == Entries(Env(types))
           list  == Read(types)
<1>1. Default[types] # <<>> /\ Blank \notin Entries(Default[types])
  <2>1. Default[types] = <<"audio/mpeg", "audio/wav">>
    <3>1. types \in Var
      BY DEF Var
    <3>2. QED
      BY <3>1, SMT DEF Default
  <2>2. Len(<<"audio/mpeg", "audio/wav">>) = 2 /\ Len(<<>>) = 0
    OBVIOUS
  <2>3. QED
    BY <2>1, <2>2, ConfigAssumption
<1>2. IF IsSet(types) /\ ~(all \subseteq {Blank})
      THEN Entries(list) = all \ {Blank} ELSE list = Default[types]
  BY ReadsTypes
<1>3. Entries(<<>>) = {}
  BY DEF Entries
<1> HIDE DEF all, list
<1>4. list # <<>> /\ Blank \notin Entries(list)
  BY <1>1, <1>2, <1>3
<1>5. QED
  BY <1>4 DEF list

-----------------------------------------------------------------------------
\* The sources do not change while the service starts.
LEMMA SameReading ==
  ASSUME process' = process, dotenv' = dotenv
  PROVE  /\ Malformed' = Malformed
         /\ \A v \in Var : Read(v)' = Read(v)
BY DEF Malformed, Read, IsSet, Env

\* Every step of the start keeps StartInv.
LEMMA StartStep == StartInv /\ [Next]_configVars => StartInv'
<1> SUFFICES ASSUME StartInv, [Next]_configVars PROVE StartInv'
  OBVIOUS
<1> USE DEF StartInv, Stage
<1>0. process' = process /\ dotenv' = dotenv
  BY DEF Next, Load, Validate, Serve, DestinationFails, configVars
<1>1. Malformed' = Malformed /\ \A v \in Var : Read(v)' = Read(v)
  BY <1>0, SameReading
<1>2. (\E e \in Environments : process = e[1] /\ dotenv = e[2])'
  BY <1>0
<1>3. CASE Load
  <2>1. cfg' = [v \in Var |-> Read(v)]'
    BY <1>1, <1>3 DEF Load
  <2>2. QED
    BY <1>1, <1>2, <1>3, <2>1 DEF Load, Explained
<1>4. ASSUME cfg' = cfg, stage # "start"
      PROVE  Rejects' = Rejects /\ cfg' = [v \in Var |-> Read(v)]'
  BY <1>1, <1>4 DEF Rejects, RejectsEach
<1>5. CASE Validate
  <2>1. Rejects' = Rejects /\ cfg' = [v \in Var |-> Read(v)]' /\ cfg' = cfg /\ Malformed = {}
    BY <1>4, <1>5 DEF Validate
  <2>2. CASE Rejects = {}
    BY <1>1, <1>2, <1>5, <2>1, <2>2 DEF Validate
  <2>3. CASE Rejects # {}
    <3>1. PICK v \in Rejects : errs' = {v}
      BY <1>5, <2>3 DEF Validate
    <3>2. Explained'
      BY <1>1, <2>1, <3>1 DEF Explained
    <3>3. QED
      BY <1>2, <1>5, <2>1, <2>3, <3>2 DEF Validate
  <2>4. QED
    BY <2>2, <2>3
<1>6. CASE Serve
  BY <1>1, <1>2, <1>4, <1>6 DEF Serve
<1>7. CASE DestinationFails
  BY <1>1, <1>2, <1>4, <1>7 DEF DestinationFails, Explained
<1>8. CASE UNCHANGED configVars
  <2>1. stage' = stage /\ cfg' = cfg /\ errs' = errs
    BY <1>8 DEF configVars
  <2>2. QED
    BY <1>1, <1>2, <1>4, <2>1 DEF Explained
<1>9. QED
  BY <1>3, <1>5, <1>6, <1>7, <1>8 DEF Next

\* StartInv holds of the start from any environment.
LEMMA StartHolds == Spec => []StartInv
<1>1. Init => StartInv
  BY DEF Init, StartInv, Stage
<1>2. QED
  BY <1>1, StartStep, PTL DEF Spec

-----------------------------------------------------------------------------
\* What a variable is told is what Env finds.
LEMMA ToldIsEnv ==
  ASSUME NEW v
  PROVE  /\ Env(v) \in {process[v], dotenv[v]} /\ Told(v, Env(v))
         /\ ~IsSet(v) => Untold(v)
BY DEF Env, IsSet, Told, Untold

\* Whatever it finds in its two sources, a service that came up goes by what it
\* was told, of every variable: no value replaced by a default, malformed or not,
\* but for an allowlist of nothing but blanks, and no default where one was set.
THEOREM ServedAsTold == Spec => []ServesAsTold
<1>1. ASSUME StartInv, stage = "serving" PROVE ServesAsTold
  <2> DEFINE types == "ALLOWED_AUDIO_TYPES"
  <2>1. Malformed = {} /\ \A v \in Var : cfg[v] = Read(v)
    BY <1>1 DEF StartInv, Stage
  <2>2. ASSUME NEW v \in Var \ {types}
        PROVE  \/ Untold(v) /\ cfg[v] = Default[v]
               \/ \E t \in {process[v], dotenv[v]} \ {Absent, Empty} :
                    Told(v, t) /\ cfg[v] = Normal(v, t)
    <3>1. CASE ~IsSet(v)
      BY <2>1, <3>1, ReadsDefault, ToldIsEnv
    <3>2. CASE IsSet(v)
      <4>1. cfg[v] = Normal(v, Env(v))
        BY <2>1, <3>2, ReadsAsSet
      <4>2. Env(v) \in {process[v], dotenv[v]} \ {Absent, Empty} /\ Told(v, Env(v))
        BY <3>2, ToldIsEnv DEF IsSet
      <4>3. QED
        BY <4>1, <4>2
    <3>3. QED
      BY <3>1, <3>2
  <2>3. \/ Untold(types) /\ cfg[types] = Default[types]
        \/ \E t \in {process[types], dotenv[types]} \ {Absent, Empty} :
             /\ Told(types, t)
             /\ IF Entries(t) \subseteq {Blank} THEN cfg[types] = Default[types]
                ELSE Entries(cfg[types]) = Entries(t) \ {Blank}
    <3>1. cfg[types] = Read(types)
      BY <2>1 DEF Var
    <3>2. CASE ~IsSet(types)
      BY <3>1, <3>2, ReadsDefault, ToldIsEnv
    <3>3. CASE IsSet(types)
      <4>1. Env(types) \in {process[types], dotenv[types]} \ {Absent, Empty}
        BY <3>3, ToldIsEnv DEF IsSet
      <4>2. Told(types, Env(types))
        BY ToldIsEnv
      <4>3. IF Entries(Env(types)) \subseteq {Blank} THEN cfg[types] = Default[types]
            ELSE Entries(cfg[types]) = Entries(Env(types)) \ {Blank}
        BY <1>1, <3>1, <3>3, ReadsTypes
      <4>4. QED
        BY <4>1, <4>2, <4>3
    <3>4. QED
      BY <3>2, <3>3
  <2>4. QED
    BY <1>1, <2>2, <2>3 DEF ServesAsTold
<1>2. StartInv => ServesAsTold
  BY <1>1 DEF ServesAsTold
<1>3. QED
  BY <1>2, StartHolds, PTL

\* Whatever it finds, a service that came up has a worker, a buffer, a positive
\* limit, an allowlist with an entry and none that is blank, and a destination.
THEOREM ServedProperly == Spec => []ServesProperly
<1>1. ASSUME StartInv, stage = "serving" PROVE ServesProperly
  <2>1. Rejects = {} /\ \A v \in Var : cfg[v] = Read(v)
    BY <1>1 DEF StartInv, Stage
  <2>2. ASSUME NEW v \in {"PIPELINE_WORKERS", "PIPELINE_QUEUE_SIZE", "MAX_AUDIO_BYTES"}
        PROVE  cfg[v] >= 1
    <3>1. ~(cfg[v] < 1)
      BY <2>1 DEF Rejects, RejectsEach
    <3>2. cfg[v] \in Int
      BY <1>1, <2>1, ReadsNumber DEF Var, IntVars
    <3>3. QED
      BY <3>1, <3>2
  <2>3. /\ cfg["ALLOWED_AUDIO_TYPES"] # <<>>
        /\ Blank \notin Entries(cfg["ALLOWED_AUDIO_TYPES"])
    <3>1. cfg["ALLOWED_AUDIO_TYPES"] = Read("ALLOWED_AUDIO_TYPES")
      BY <2>1 DEF Var
    <3>2. QED
      BY <1>1, <3>1, ReadsList
  <2>4. \/ cfg["DESTINATION"] = "log"
        \/ cfg["DESTINATION"] = "sheets" /\ cfg["GOOGLE_SHEETS_SPREADSHEET_ID"] # Empty
    BY <2>1 DEF Rejects, RejectsEach
  <2>5. QED
    BY <2>2, <2>3, <2>4 DEF ServesProperly
<1>2. StartInv => ServesProperly
  BY <1>1 DEF ServesProperly
<1>3. QED
  BY <1>2, StartHolds, PTL

\* With its key and nothing else, the service has nothing to object to.
LEMMA KeySuffices ==
  ASSUME StartInv, stage # "start", IsSet("OPENAI_API_KEY"),
         \A v \in Var \ {"OPENAI_API_KEY"} : ~IsSet(v)
  PROVE  Malformed = {} /\ Rejects = {} /\ cfg["DESTINATION"] # "sheets"
<1>1. Malformed = {}
  BY MalformedIsSet
<1>2. \A v \in Var : cfg[v] = Read(v)
  BY DEF StartInv, Stage
<1>3. \A v \in Var \ {"OPENAI_API_KEY"} : cfg[v] = Default[v]
  BY <1>2, ReadsDefault
<1>4. cfg["OPENAI_API_KEY"] # Empty
  <2>1. /\ "OPENAI_API_KEY" \in Var \ {"ALLOWED_AUDIO_TYPES"}
        /\ "OPENAI_API_KEY" \notin NameVars \cup {"OPENAI_BASE_URL"}
    BY DEF Var, TextVars, NameVars
  <2>2. QED
    BY <1>1, <1>2, <2>1, ReadsAsSet DEF IsSet
<1>5. /\ \A v \in {"PIPELINE_WORKERS", "PIPELINE_QUEUE_SIZE", "MAX_AUDIO_BYTES"} :
           ~(cfg[v] < 1)
      /\ cfg["DESTINATION"] = "log" /\ cfg["LOG_FORMAT"] = "json"
  <2>1. \A v \in {"PIPELINE_WORKERS", "PIPELINE_QUEUE_SIZE", "MAX_AUDIO_BYTES",
                   "DESTINATION", "LOG_FORMAT"} : cfg[v] = Default[v]
    BY <1>3 DEF Var, IntVars, TextVars, NameVars
  <2>2. QED
    BY <2>1, Defaults
<1>6. RejectsEach = {}
  BY <1>4, <1>5 DEF RejectsEach
<1>7. QED
  BY <1>1, <1>5, <1>6 DEF Rejects

\* Whatever it finds, a start that fails says why, names all that is malformed at
\* once or else what was rejected, and does not fail over defaults.
THEOREM FailuresExplained == Spec => []FailureExplained
<1>1. ASSUME StartInv, stage = "failed" PROVE FailureExplained
  <2>1. Explained
    BY <1>1 DEF StartInv
  <2>2. IsSet("OPENAI_API_KEY") => \E v \in Var \ {"OPENAI_API_KEY"} : IsSet(v)
    BY <1>1, <2>1, KeySuffices DEF Explained
  <2>3. QED
    BY <2>1, <2>2 DEF Explained, FailureExplained
<1>2. StartInv => FailureExplained
  BY <1>1 DEF FailureExplained
<1>3. QED
  BY <1>2, StartHolds, PTL
=============================================================================
