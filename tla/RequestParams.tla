---------------------------- MODULE RequestParams ----------------------------
(***************************************************************************)
(* The parsers of the geometry parameters of POST /v1.0/removebg          *)
(* (index.js getCropMargin, getScale, getPosition), whose null result      *)
(* prepare answers with invalid_crop_margin, invalid_scale and             *)
(* invalid_position (the ParamErrors that ApiRoutes takes as inputs).      *)
(*                                                                         *)
(* A parameter is whatever req.body holds: undefined, a boolean, a number  *)
(* (JSON bodies) or a string.  A string the regular expressions can match  *)
(* is kept as its sequence of tokens, each a decimal number and its unit   *)
(* ("", "%" or "px"); the separators (space or comma) and leading zeros    *)
(* are left out, so a token has the digits of its value.  Every other     *)
(* string is a word: "", "original", "center" or any other text.          *)
(***************************************************************************)
EXTENDS Integers, Sequences

CONSTANTS
    Null,       \* the null a parser returns for an invalid value
    ShortNums,  \* token values of strings of one or two tokens
    LongNums    \* token values of strings of three to five tokens

VARIABLES value, parsed
vars == <<value, parsed>>

Units == {"", "%", "px"}
Words == {"", "original", "center", "garbage"}
Sides == {"top", "right", "bottom", "left"}

Tokens(nums) == [n : nums, unit : Units]

(* The values a body parameter can hold. *)
Inputs ==
    {[type |-> "undefined"]}
    \cup [type : {"boolean"}, val : BOOLEAN]
    \cup [type : {"number"}, val : {0, 1}]
    \cup [type : {"word"}, val : Words]
    \cup [type : {"tokens"}, val : UNION {[1..k -> Tokens(ShortNums)] : k \in 1..2}
                                   \cup UNION {[1..k -> Tokens(LongNums)] : k \in 3..4}
                                   \cup {[i \in 1..5 |-> t] : t \in Tokens(LongNums)}]

IsString(v) == v.type \in {"word", "tokens"}

(* JavaScript !v. *)
Falsy(v) ==
    \/ v.type = "undefined"
    \/ v.type = "boolean" /\ ~v.val
    \/ v.type = "number" /\ v.val = 0
    \/ v.type = "word" /\ v.val = ""

(* v == "original" / v == "center" on a string. *)
IsWord(v, w) == v.type = "word" /\ v.val = w

RECURSIVE Digits(_)
Digits(n) == IF n < 10 THEN 1 ELSE 1 + Digits(n \div 10)

(* A regular expression of up to lo..hi tokens of at most d digits, each   *)
(* with a unit in us, matches the string.                                  *)
Matches(v, lo, hi, d, us) ==
    /\ v.type = "tokens"
    /\ Len(v.val) \in lo..hi
    /\ \A i \in 1..Len(v.val) : Digits(v.val[i].n) <= d /\ v.val[i].unit \in us

-----------------------------------------------------------------------------
(* getCropMargin: cropMarginFormat takes one to four tokens of up to five  *)
(* digits with an optional % or px; vals and vals_relative keep the        *)
(* groups that took part (one per token); each value is bounded by 50      *)
(* when relative, 500 otherwise; the switch spreads 1, 2 or 4 values over  *)
(* the sides and rejects any other count.                                  *)
Margin(vals, rel, t, r, b, l) ==
    [top |-> [v |-> vals[t], rel |-> rel[t]], right |-> [v |-> vals[r], rel |-> rel[r]],
     bottom |-> [v |-> vals[b], rel |-> rel[b]], left |-> [v |-> vals[l], rel |-> rel[l]]]

ZeroMargin == [s \in Sides |-> [v |-> 0, rel |-> FALSE]]

(* Mutant: two values spread as top/right and bottom/left. *)
SpreadTwoSwapped(vals, rel) == Margin(vals, rel, 1, 1, 2, 2)

SpreadTwo(vals, rel) == Margin(vals, rel, 1, 2, 1, 2)

GetCropMargin(v) ==
    IF Falsy(v) THEN ZeroMargin
    ELSE IF ~IsString(v) \/ ~Matches(v, 1, 4, 5, Units) THEN Null
    ELSE LET vals == [i \in 1..Len(v.val) |-> v.val[i].n]
             rel == [i \in 1..Len(v.val) |-> v.val[i].unit = "%"]
         IN  IF \E i \in 1..Len(vals) : vals[i] < 0 \/ vals[i] > (IF rel[i] THEN 50 ELSE 500)
             THEN Null
             ELSE CASE Len(vals) = 1 -> Margin(vals, rel, 1, 1, 1, 1)
                    [] Len(vals) = 2 -> SpreadTwo(vals, rel)
                    [] Len(vals) = 4 -> Margin(vals, rel, 1, 2, 3, 4)
                    [] OTHER -> Null

(* getScale: absent or "original" keeps the scale; otherwise a string of  *)
(* one percentage of up to three digits, 10 to 100.                        *)
GetScale(v) ==
    IF Falsy(v) \/ IsWord(v, "original") THEN "original"
    ELSE IF ~IsString(v) \/ ~Matches(v, 1, 1, 3, {"%"}) THEN Null
    ELSE IF v.val[1].n < 10 \/ v.val[1].n > 100 THEN Null
    ELSE v.val[1].n

(* getPosition: absent or "original" keeps the position, "center" is       *)
(* 50% 50%; otherwise one or two percentages of up to three digits, each   *)
(* 0 to 100, one value standing for both axes.                             *)
GetPosition(v) ==
    IF Falsy(v) \/ IsWord(v, "original") THEN "original"
    ELSE IF ~IsString(v) THEN Null
    ELSE IF IsWord(v, "center") THEN [x |-> 50, y |-> 50]
    ELSE IF ~Matches(v, 1, 2, 3, {"%"}) THEN Null
    ELSE LET vals == [i \in 1..Len(v.val) |-> v.val[i].n] IN
         IF \E i \in 1..Len(vals) : vals[i] < 0 \/ vals[i] > 100 THEN Null
         ELSE [x |-> vals[1], y |-> vals[Len(vals)]]

-----------------------------------------------------------------------------
(* prepare parses the parameter. *)
Init ==
    /\ value \in Inputs
    /\ parsed = Null

Parse ==
    /\ parsed = Null
    /\ parsed' = [crop_margin |-> GetCropMargin(value), scale |-> GetScale(value),
                  position |-> GetPosition(value)]
    /\ UNCHANGED value

Spec == Init /\ [][Parse]_vars

-----------------------------------------------------------------------------
(* The parameters as the API documents them, stated without the regular    *)
(* expressions: a crop margin is absent (no margin) or a string of one,    *)
(* two or four values, each in pixels (at most 500, "px" optional) or a    *)
(* percentage (at most 50%), for all sides, for top/bottom and             *)
(* right/left, or clockwise from the top; a scale is absent, "original"    *)
(* or a percentage from 10% to 100%; a position is absent, "original",     *)
(* "center" or one or two percentages from 0% to 100%, one for both axes.  *)
(* Any other value is invalid.                                             *)
Percent(t) == t.unit = "%"

CssSide(k, s) ==
    CASE s = "top" -> 1
      [] s = "right" -> IF k = 1 THEN 1 ELSE 2
      [] s = "bottom" -> IF k = 4 THEN 3 ELSE 1
      [] s = "left" -> IF k = 4 THEN 4 ELSE IF k = 2 THEN 2 ELSE 1

DocCropMargin(v) ==
    IF Falsy(v) THEN ZeroMargin
    ELSE IF /\ v.type = "tokens"
            /\ Len(v.val) \in {1, 2, 4}
            /\ \A i \in 1..Len(v.val) : v.val[i].n <= IF Percent(v.val[i]) THEN 50 ELSE 500
         THEN [s \in Sides |-> LET t == v.val[CssSide(Len(v.val), s)]
                               IN [v |-> t.n, rel |-> Percent(t)]]
         ELSE Null

DocScale(v) ==
    IF Falsy(v) \/ IsWord(v, "original") THEN "original"
    ELSE IF v.type = "tokens" /\ Len(v.val) = 1 /\ Percent(v.val[1]) /\ v.val[1].n \in 10..100
         THEN v.val[1].n
         ELSE Null

DocPosition(v) ==
    IF Falsy(v) \/ IsWord(v, "original") THEN "original"
    ELSE IF IsWord(v, "center") THEN [x |-> 50, y |-> 50]
    ELSE IF /\ v.type = "tokens" /\ Len(v.val) \in {1, 2}
            /\ \A i \in 1..Len(v.val) : Percent(v.val[i]) /\ v.val[i].n <= 100
         THEN [x |-> v.val[1].n, y |-> v.val[Len(v.val)].n]
         ELSE Null

(* getCropMargin, getScale and getPosition accept exactly the documented   *)
(* values and give each the documented margin, scale and position: the     *)
(* regular expressions' digit limits, the per-unit bounds and the switch   *)
(* that spreads the margin values over the sides agree with the            *)
(* shorthand, for every value a JSON or form body can carry.               *)
ParsedAsDocumented ==
    parsed # Null =>
      parsed = [crop_margin |-> DocCropMargin(value), scale |-> DocScale(value),
                position |-> DocPosition(value)]
=============================================================================
