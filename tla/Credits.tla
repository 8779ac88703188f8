------------------------------- MODULE Credits -------------------------------
(***************************************************************************)
(* The credit check and charge of one API call (remote_credits.js check,   *)
(* distributeCharge, getMaxSize; api_call.js ApiCall): checkBalance asks   *)
(* RemoteCredits.check whether the user snapshot fetched by assignUser can *)
(* pay for the action; the success callback hands the route a charge       *)
(* closure, which the route calls with the image resolution once the       *)
(* result is ready.  The closure re-selects the action for the resolution  *)
(* (updateForResolution), then either uses a free API call or splits the   *)
(* action's price over the user's balances, reports the split to the       *)
(* users-api, and returns credits_charged to the route.                    *)
(*                                                                         *)
(* The action table comes from the kaleido-api package (removebg_actions); *)
(* it is a constant here.  Credit amounts are in units of the table.       *)
(***************************************************************************)
EXTENDS Integers, FiniteSets

CONSTANTS
    Apis,          \* action names
    Actions,       \* Actions[a]: [mcredits, canBeFree, min_resolution, alternative]
    NoMin,         \* no min_resolution
    Resolutions,   \* image resolutions the charge may be called with
    Balances,      \* values of mcredits_monthly, mcredits, mcredits_enterprise
    Overdrafts,    \* values of mcredits_enterprise_overdraft_limit
    RequestedSizes \* values of the size parameter

VARIABLES
    user,     \* the user snapshot of res.locals.user
    call,     \* the ApiCall's current api
    phase,    \* "new", "invalid" (400), "approved" (charge closure handed out),
              \* "missing" (402), "charged"
    charge,   \* the split reported to the users-api: <<monthly, mcredits, enterprise>>
    free,     \* whether the report used a free API call
    charged,  \* credits_charged returned to the route (mcreditsCharged)
    resolution \* the resolution the charge closure was called with
vars == <<user, call, phase, charge, free, charged, resolution>>

Users == [free_api_calls : 0..1, mcredits_monthly : Balances, mcredits : Balances,
          enterprise : BOOLEAN, mcredits_enterprise : Balances,
          mcredits_enterprise_overdraft_limit : Overdrafts]

(* availableMcredits of check, mcredits_spendable of getMaxSize. *)
Available(u) ==
    u.mcredits_monthly + u.mcredits
      + IF u.enterprise THEN u.mcredits_enterprise + u.mcredits_enterprise_overdraft_limit
        ELSE 0

(* getMaxSize: the size "auto" resolves to. *)
GetMaxSize(u) == IF Available(u) >= 1000 THEN "full" ELSE "preview"

(* getSize: the size parameter of the request, with its aliases. *)
GetSize(requested, u) ==
    CASE requested \in {"undefined", "500px", "regular", "small"} -> "preview"
      [] requested = "4k"   -> "full"
      [] requested = "auto" -> GetMaxSize(u)
      [] OTHER              -> requested

ValidSizes == {"small", "medium", "hd", "preview", "full"}

(* ApiCall.canBeFree and the free-call test of check and of the closure. *)
CanBeFree(u, a) == u.free_api_calls > 0 /\ Actions[a].canBeFree

(* ApiCall.updateForResolution: while the action has a min_resolution above *)
(* the resolution, switch to its min_resolution_alternative.               *)
RECURSIVE UpdateForResolution(_, _)
UpdateForResolution(a, res) ==
    IF Actions[a].min_resolution # NoMin /\ res < Actions[a].min_resolution
    THEN UpdateForResolution(Actions[a].alternative, res) ELSE a

MinOf(x, y) == IF x < y THEN x ELSE y
PosPart(x) == IF x > 0 THEN x ELSE 0

(* Mutant: the enterprise balance left out of the split. *)
DistributeChargeNoEnterprise(u, amount) ==
    LET m  == MinOf(amount, PosPart(u.mcredits_monthly))
        c  == MinOf(amount - m, PosPart(u.mcredits))
    IN <<m, c, 0>>

(* distributeCharge: take from mcredits_monthly, then mcredits, then (for   *)
(* enterprise users) enterprise credits plus overdraft, each capped at its *)
(* positive part; whatever remains is not charged.                         *)
DistributeCharge(u, amount) ==
    LET m  == MinOf(amount, PosPart(u.mcredits_monthly))
        c  == MinOf(amount - m, PosPart(u.mcredits))
        e  == IF u.enterprise
              THEN MinOf(amount - m - c,
                         PosPart(u.mcredits_enterprise + u.mcredits_enterprise_overdraft_limit))
              ELSE 0
    IN <<m, c, e>>

Init ==
    /\ user \in Users
    /\ \E requested \in RequestedSizes : call = GetSize(requested, user)
    /\ phase = "new"
    /\ charge = <<0, 0, 0>>
    /\ free = FALSE
    /\ charged = 0
    /\ resolution = 0

(* checkBalance: an invalid size or channels parameter is a 400 before    *)
(* any credit check.                                                       *)
CheckBalance ==
    /\ phase = "new"
    /\ \E channels \in {"rgba", "alpha", "other"} :
         call \notin ValidSizes \/ channels \notin {"rgba", "alpha"}
    /\ phase' = "invalid"
    /\ UNCHANGED <<user, call, charge, free, charged, resolution>>

(* check: the free call, or enough credits for the action's price. *)
Check ==
    /\ phase = "new"
    /\ call \in ValidSizes
    /\ phase' = IF CanBeFree(user, call) \/ Available(user) >= Actions[call].mcredits
                THEN "approved" ELSE "missing"
    /\ UNCHANGED <<user, call, charge, free, charged, resolution>>

(* The charge closure, called by the route with the result's resolution:   *)
(* updateForResolution, then a free call or distributeCharge, report, and  *)
(* credits_charged.                                                        *)
Charge ==
    /\ phase = "approved"
    /\ \E res \in Resolutions :
         LET a == UpdateForResolution(call, res) IN
         /\ call' = a
         /\ resolution' = res
         /\ IF CanBeFree(user, a)
            THEN /\ free' = TRUE /\ charge' = <<0, 0, 0>> /\ charged' = 0
            ELSE /\ free' = FALSE
                 /\ charge' = DistributeCharge(user, Actions[a].mcredits)
                 /\ charged' = Actions[a].mcredits
    /\ phase' = "charged"
    /\ UNCHANGED user

Next == CheckBalance \/ Check \/ Charge
Spec == Init /\ [][Next]_vars

-----------------------------------------------------------------------------
(* What the route reports to the client as credits_charged is what the     *)
(* report sends to the users-api: a free call charges nothing, and a paid  *)
(* call's split adds up to the action's price, each part taken from a      *)
(* positive balance and never more than it.  The check approved the call  *)
(* on the same snapshot, so nothing of the price may be left unsplit.      *)
ChargeMatchesReport ==
    phase = "charged" =>
        /\ free => charged = 0
        /\ ~free => charge[1] + charge[2] + charge[3] = charged
        /\ 0 <= charge[1] /\ charge[1] <= PosPart(user.mcredits_monthly)
        /\ 0 <= charge[2] /\ charge[2] <= PosPart(user.mcredits)
        /\ 0 <= charge[3]
=============================================================================
