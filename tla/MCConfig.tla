------------------------------ MODULE MCConfig ------------------------------
(***************************************************************************)
(* A unit of a half second, so that a number of seconds is doubled, and a   *)
(* modulus small enough for "forever" to overflow.  Files and environments  *)
(* set at most two scalar fields each, to any kind of text.                 *)
(***************************************************************************)
EXTENDS Config

Absent == [kind |-> "absent", n |-> 0]
Text2 == {[kind |-> "bad", n |-> 0], [kind |-> "number", n |-> 0], [kind |-> "number", n |-> 3],
          [kind |-> "number", n |-> 99], [kind |-> "go", n |-> 15], [kind |-> "go", n |-> 90]}
\* The text of each field when those of at most two fields are given.
MCTexts(pairs) ==
    UNION {{[f \in Fields |-> IF f \in p THEN g[f] ELSE Absent] : g \in [p -> Text2]} : p \in pairs}

MCPairs == {{}, {"poll", "retention"}, {"poll", "points"}, {"ttl", "concurrent"}, {"rescan", "timeout"}}
MCSingles == {{}, {"poll"}, {"retention"}, {"points"}, {"ttl"}}

\* A YAML or JSON number that is not one makes the whole file unreadable.
Decodes(texts) == \A f \in CountFields : texts[f].kind \in {"absent", "number"}

MCFiles ==
    {[present |-> FALSE, readable |-> FALSE, texts |-> [f \in Fields |-> Absent],
      sqlite |-> "", targets |-> <<>>]}
    \cup {[present |-> TRUE, readable |-> Decodes(t), texts |-> t,
           sqlite |-> p, targets |-> <<"a", "", "b", "a">>] : t \in MCTexts(MCPairs), p \in {"", "off"}}

MCEnvironments ==
    {[texts |-> t, sqliteSet |-> s, sqlite |-> "", targets |-> tg] :
        t \in MCTexts(MCSingles), s \in BOOLEAN, tg \in {<<>>, <<"b", "c", "c">>}}
=============================================================================
