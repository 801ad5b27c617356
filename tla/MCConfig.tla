----------------------------- MODULE MCConfig ------------------------------
(* Config on a small set of environments. *)
EXTENDS Config

\* What each variable may be set to: good, at the edge, or not parseable.
Sample(v) ==
  CASE v \in IntVars \cup DurVars -> {0 - 1, 0, 1, Junk, Empty}
    [] v = "DESTINATION" -> {"log", "sheets", "SHEETS", "ftp", Empty}
    [] v = "LOG_FORMAT" -> {"json", "TEXT", "xml", Empty}
    [] v = "LOG_LEVEL" -> {"DEBUG", Empty}
    [] v = "OPENAI_BASE_URL" -> {"https://llm/", "https://llm", Empty}
    [] v = "ALLOWED_AUDIO_TYPES" -> {<<Blank>>, <<"audio/ogg", Blank>>, Empty}
    [] OTHER -> {"given", "other", Empty}

Settings == UNION {{<<v, s>> : s \in Sample(v)} : v \in Var \ {"OPENAI_API_KEY"}}

Nothing == [v \in Var |-> Absent]

Setting(sources, s) == {[e EXCEPT ![s[1]] = s[2]] : e \in sources}

One == {Nothing} \cup UNION {Setting({Nothing}, s) : s \in Settings}
Two == One \cup UNION {Setting(One, s) : s \in Settings}

Keyed(sources) == sources \cup Setting(sources, <<"OPENAI_API_KEY", "given">>)

\* The key, in either source or missing, and at most two other settings.
MCEnvironments ==
  (Keyed(Two) \X {Nothing}) \cup (One \X Keyed(One)) \cup (Keyed(One) \X One)
=============================================================================
