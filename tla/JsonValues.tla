----------------------------- MODULE JsonValues -----------------------------
(***************************************************************************)
(* The JSON values the analyser and the payload builder read, and the      *)
(* Python operations they apply to them: dict.get, truthiness and `or`.    *)
(*                                                                         *)
(* A value is a tagged record: JBool(b), JNum(n), JStr(w, case, pad).  A   *)
(* string keeps its stripped, lower-case word and how the raw text differs *)
(* from it (its case and surrounding blanks); Normalize, the model of      *)
(* strip().lower(), forgets the difference.  A decoded object is a         *)
(* function from keys to values; a key outside its domain is absent.       *)
(***************************************************************************)
EXTENDS Naturals, Sequences

CONSTANT None   \* Python None

JBool(b) == [type |-> "bool", val |-> b]
JNum(n) == [type |-> "num", val |-> n]
JStr(w, case, pad) == [type |-> "str", word |-> w, case |-> case, pad |-> pad]

EmptyText == JStr("", "lower", FALSE)

\* a dict (a function from keys to values) and a list (a sequence)
JDict(m) == [type |-> "dict", map |-> m]
JList(s) == [type |-> "list", items |-> s]
IsDict(v) == v # None /\ v.type = "dict"
IsList(v) == v # None /\ v.type = "list"

\* obj.get(key): the value under key, or None when the key is absent
Get(obj, key) == IF key \in DOMAIN obj THEN obj[key] ELSE None

\* value.strip().lower()
Normalize(s) == s.word

\* Python truthiness of a JSON value or None
Truthy(v) ==
    /\ v # None
    /\ CASE v.type = "bool" -> v.val
         [] v.type = "num"  -> v.val # 0
         [] v.type = "str"  -> v.word # "" \/ v.pad

\* obj.get(k1) or obj.get(k2) or ... or default
GetOr(obj, keys, default) ==
    LET vals == [i \in 1..Len(keys) |-> Get(obj, keys[i])]
        truthy == {i \in 1..Len(keys) : Truthy(vals[i])}
    IN IF truthy = {} THEN default
       ELSE vals[CHOOSE i \in truthy : \A j \in truthy : i <= j]

JsonValue ==
    {None} \cup [type : {"bool"}, val : BOOLEAN] \cup [type : {"num"}, val : Nat]
    \cup [type : {"str"}, word : STRING, case : STRING, pad : BOOLEAN]

=============================================================================
