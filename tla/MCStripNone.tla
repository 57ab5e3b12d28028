---------------------------- MODULE MCStripNone -----------------------------
(***************************************************************************)
(* _strip_none (evidence_store.py) checked over every JSON value of depth  *)
(* at most two over two keys and three scalars (None, false, "x"): one     *)
(* step strips the chosen input.                                           *)
(***************************************************************************)
EXTENDS Payloads

VARIABLES input, output

Keys == {"a", "b"}
Scalars == {None, JBool(FALSE), JStr("x", "lower", FALSE)}

Dicts(vals) == {JDict(m) : m \in UNION {[K -> vals] : K \in SUBSET Keys}}
Lists(vals, n) == {JList(s) : s \in UNION {[1..k -> vals] : k \in 0..n}}

Shallow == Scalars \cup Dicts(Scalars) \cup Lists(Scalars, 2)
Inputs == Dicts(Shallow) \cup Lists(Shallow, 1)

Init == input \in Inputs /\ output = None

\* payloads.append(_strip_none(evidence_body))
Strip ==
    /\ output = None
    /\ output' = StripNone(input)
    /\ UNCHANGED input

Spec == Init /\ [][Strip]_<<input, output>>

\* no dict entry or list element anywhere inside v is a placeholder
RECURSIVE Clean(_)
Clean(v) ==
    IF IsDict(v)
      THEN \A k \in DOMAIN v.map : ~Placeholder(v.map[k]) /\ Clean(v.map[k])
    ELSE IF IsList(v)
      THEN \A i \in DOMAIN v.items : ~Placeholder(v.items[i]) /\ Clean(v.items[i])
    ELSE TRUE

\* Spec 3: payload construction strips null, empty mapping and empty
\* sequence fields recursively, so the stripped payload carries no empty
\* placeholder at any depth (checked against the dict case of _strip_none,
\* which tests an entry before stripping inside it).
NoPlaceholderRemains ==
    output # None => Clean(output)

=============================================================================
