------------------------------ MODULE KeyLookup ------------------------------
(***************************************************************************)
(* How KeyAuth.fetchFromDb (key_auth.js) answers the fetches of one batch  *)
(* from its SQL result.  The query returns, in no particular order, the    *)
(* api_keys rows that are not deleted and whose key or old_key is among    *)
(* the fetched values; the then-callback builds byKey, indexing each row   *)
(* by its key and, when set, by its old_key (a rotated key stays valid),   *)
(* and resolves every fetch with Key.fromSql of its row or with            *)
(* Key.fromNotFound.                                                       *)
(*                                                                         *)
(* Init takes every table of up to two rows over three key values whose    *)
(* identifiers are distinct (keys are random 24-character strings), every  *)
(* batch of up to two fetches and every order the database may return the *)
(* rows in; Resolve runs the callback.                                     *)
(***************************************************************************)
EXTENDS Integers, Sequences, SequencesExt, FiniteSets, TLC

CONSTANTS
    Ids,        \* key values
    Users,      \* user ids
    Null        \* a NULL old_key

VARIABLES table, fetches, rows, resolved
vars == <<table, fetches, rows, resolved>>

Row == [key : Ids, old_key : Ids \cup {Null}, user_id : Users, deleted : BOOLEAN]

(* The identifiers of a row: its key and, when set, its old_key. *)
Idents(r) == {r.key} \cup ({r.old_key} \ {Null})

(* Tables whose identifiers are pairwise distinct. *)
Tables == {t \in {{}} \cup {{r, s} : r, s \in Row} :
             /\ \A r \in t : r.old_key # r.key
             /\ \A r, s \in t : r # s => Idents(r) \cap Idents(s) = {}}

(* The rows the SELECT returns for the fetched values, in any order. *)
Selected(t, vals) == {r \in t : ~r.deleted /\ Idents(r) \cap vals # {}}

(* Mutant: old_key not indexed. *)
ByKeyNoOldKey(rs) ==
    FoldLeft(LAMBDA m, r : (r.key :> r) @@ m, <<>>, rs)

(* byKey: res.rows.forEach: byKey[row.key] = row, then, if row.old_key,    *)
(* byKey[row.old_key] = row; a later row overwrites an earlier one.        *)
ByKey(rs) ==
    FoldLeft(LAMBDA m, r :
               (IF r.old_key # Null THEN r.old_key :> r ELSE <<>>) @@ (r.key :> r) @@ m,
             <<>>, rs)

(* Key.fromSql: a key that exists, of the row's user. *)
KeyFromSql(r) == [exists |-> TRUE, user_id |-> r.user_id]

(* Key.fromNotFound: a key that does not exist. *)
KeyFromNotFound == [exists |-> FALSE]

(* Key.isAcceptable. *)
KeyIsAcceptable(k) == k.exists

(* fetches.forEach: fromSql(byKey[fetch.key]) when fetch.key in byKey,    *)
(* fromNotFound() otherwise.                                               *)
ResolveFetches(fs, rs) ==
    LET m == ByKey(rs) IN
    [i \in DOMAIN fs |-> IF fs[i] \in DOMAIN m THEN KeyFromSql(m[fs[i]]) ELSE KeyFromNotFound]

Init ==
    /\ table \in Tables
    /\ fetches \in UNION {[1..n -> Ids] : n \in 1..2}
    /\ rows \in SetToSeqs(Selected(table, Range(fetches)))
    /\ resolved = <<>>

Resolve ==
    /\ resolved = <<>>
    /\ resolved' = ResolveFetches(fetches, rows)
    /\ UNCHANGED <<table, fetches, rows>>

Spec == Init /\ [][Resolve]_vars

-----------------------------------------------------------------------------
(* Spec section 4.3: both identifiers of a key, the current and the        *)
(* rotated one, resolve to an acceptable key of the user of the row they   *)
(* belong to; a value no live row carries resolves to a key that is not    *)
(* acceptable.                                                             *)
BothIdentifiersResolve ==
    resolved # <<>> =>
      \A i \in DOMAIN fetches :
        IF \E r \in table : ~r.deleted /\ fetches[i] \in Idents(r)
        THEN LET r == CHOOSE r \in table : ~r.deleted /\ fetches[i] \in Idents(r)
             IN  KeyIsAcceptable(resolved[i]) /\ resolved[i].user_id = r.user_id
        ELSE ~KeyIsAcceptable(resolved[i])
=============================================================================
