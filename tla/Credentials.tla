----------------------------- MODULE Credentials -----------------------------
(***************************************************************************)
(* The Token record of token.js: Token.fromSql turns a database row into   *)
(* a record whose times are whole epoch seconds, and isAcceptable,         *)
(* isRevoked and isExpired compare them with the current time, read from   *)
(* new Date() in milliseconds and divided by 1000, so "now" is fractional. *)
(* Time is counted here in half seconds (Units per second = 2): a row time *)
(* or "now" may fall between two whole seconds, which is where the floor   *)
(* in fromSql matters.                                                     *)
(*                                                                         *)
(* The model holds one row and the clock.  Init takes every row of the     *)
(* bounded domain and every start time; Tick lets time pass, so the        *)
(* checked properties range over all rows at all instants, including the   *)
(* boundary instants at which a token becomes revoked or expired.          *)
(***************************************************************************)
EXTENDS Integers

CONSTANTS
    Null,          \* a NULL column / an unset attribute
    Times,         \* row timestamps created_at, revoked_at, in half seconds
    ExpiresIns,    \* expires_in values of rows, in seconds (or Null)
    MaxNow         \* bound on the clock, in half seconds

VARIABLES row, now
vars == <<row, now>>

Units == 2   \* clock units per second

Rows == [created_at : Times \cup {Null},
         expires_in : ExpiresIns,
         revoked_at : Times \cup {Null}]

(* Mutant: the seconds rounded to nearest instead of floored.              *)
FromSqlRounded(r) ==
    [exists     |-> TRUE,
     created_at |-> IF r.created_at = Null THEN Null ELSE (r.created_at + 1) \div Units,
     expires_in |-> r.expires_in,
     revoked_at |-> IF r.revoked_at = Null THEN Null ELSE (r.revoked_at + 1) \div Units]

(* Token.fromSql: a Date column becomes Math.floor(getTime() / 1000), i.e. *)
(* whole seconds; expires_in is copied.                                    *)
FromSql(r) ==
    [exists     |-> TRUE,
     created_at |-> IF r.created_at = Null THEN Null ELSE r.created_at \div Units,
     expires_in |-> r.expires_in,
     revoked_at |-> IF r.revoked_at = Null THEN Null ELSE r.revoked_at \div Units]

(* JavaScript truthiness of a number-or-null attribute: null and 0 are     *)
(* falsy.                                                                  *)
Truthy(x) == x # Null /\ x # 0

(* Mutant: revocation tested for equality with now instead of <=.         *)
IsRevokedAtOnly(t, n) == Truthy(t.revoked_at) /\ t.revoked_at * Units = n

(* isRevoked / isExpired: t <= now with now = n / Units seconds.           *)
IsRevoked(t, n) == Truthy(t.revoked_at) /\ t.revoked_at * Units <= n
IsExpired(t, n) ==
    /\ Truthy(t.created_at) /\ Truthy(t.expires_in)
    /\ (t.created_at + t.expires_in) * Units <= n
IsAcceptable(t, n) == t.exists /\ ~IsRevoked(t, n) /\ ~IsExpired(t, n)

(* toError: the reason fromToken puts into the 403 error.                  *)
ToError(t, n) ==
    CASE ~t.exists      -> "Auth token invalid"
      [] IsRevoked(t, n) -> "Auth token revoked"
      [] IsExpired(t, n) -> "Auth token expired"

Init ==
    /\ row \in Rows
    /\ now \in 0..MaxNow

Tick ==
    /\ now < MaxNow
    /\ now' = now + 1
    /\ UNCHANGED row

Spec == Init /\ [][Tick]_vars

(* Reference: the acceptability rule of the record, on the row's real      *)
(* times: not revoked (revoked_at unset or strictly in the future) and not *)
(* expired (expires_in unset, or created_at + expires_in strictly in the   *)
(* future).                                                                *)
RefAcceptable(r, n) ==
    /\ r.revoked_at = Null \/ r.revoked_at > n
    /\ r.expires_in = Null \/ r.created_at = Null
       \/ r.created_at + r.expires_in * Units > n

(* Token.isAcceptable never accepts a token that the acceptability rule    *)
(* rejects at the same instant: the seconds rounding of fromSql and the    *)
(* falsy checks of isRevoked/isExpired may only make it stricter.          *)
AcceptedOnlyIfValid ==
    IsAcceptable(FromSql(row), now) => RefAcceptable(row, now)

(* Once isAcceptable rejects a token, it keeps rejecting it as time passes *)
(* (revocation and expiry are never undone by the clock).                  *)
RejectionIsFinal ==
    [][~IsAcceptable(FromSql(row), now) => ~IsAcceptable(FromSql(row'), now')]_vars
=============================================================================
