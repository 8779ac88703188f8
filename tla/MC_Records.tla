------------------------------ MODULE MC_Records ------------------------------
(* The small components that share no state, in one model: a token row    *)
(* judged by Token.fromSql and isAcceptable as the clock runs              *)
(* (Credentials), a batch of key fetches answered from the api_keys rows   *)
(* by byKey (KeyLookup), a body parameter parsed by the geometry parsers   *)
(* of prepare (RequestParams), or the start-up, health probes and          *)
(* shutdown of the server process (ServerLifecycle).  They share no state, so a behaviour is a      *)
(* behaviour of one of them (part), the others' variables staying at an    *)
(* initial state of theirs.  Token row times run from 1 s to 2.5 s in half *)
(* seconds, so that each may fall on or between whole seconds.            *)
EXTENDS Naturals, TLC

CONSTANTS Null, ExpiresIns, MaxNow, Ids, Users, ShortNums, LongNums, MaxAttempts

VARIABLES part, row, now, table, fetches, rows, resolved, value, parsed,
          credits, attempts, core, started, shutdown, probe

MCTimes == 2..5

Tok == INSTANCE Credentials WITH Times <- MCTimes
Key == INSTANCE KeyLookup
Par == INSTANCE RequestParams
Srv == INSTANCE ServerLifecycle

tokVars == <<row, now>>
keyVars == <<table, fetches, rows, resolved>>
parVars == <<value, parsed>>
srvVars == <<credits, attempts, core, started, shutdown, probe>>
vars == <<part, tokVars, keyVars, parVars, srvVars>>

NoTokVars == row = [created_at |-> Null, expires_in |-> Null, revoked_at |-> Null] /\ now = 0
NoKeyVars == table = {} /\ fetches = <<>> /\ rows = <<>> /\ resolved = <<>>
NoParVars == value = [type |-> "undefined"] /\ parsed = Null
(* A process that has ended. *)
NoSrvVars ==
    /\ credits = "connecting" /\ attempts = 0 /\ core = "idle" /\ started = FALSE
    /\ shutdown = "done" /\ probe = Srv!NoProbe

Init ==
    \/ part = "token" /\ Tok!Init /\ NoKeyVars /\ NoParVars /\ NoSrvVars
    \/ part = "key" /\ Key!Init /\ NoTokVars /\ NoParVars /\ NoSrvVars
    \/ part = "params" /\ Par!Init /\ NoTokVars /\ NoKeyVars /\ NoSrvVars
    \/ part = "server" /\ Srv!Init /\ NoTokVars /\ NoKeyVars /\ NoParVars

Next ==
    \/ part = "token" /\ Tok!Tick /\ UNCHANGED <<part, keyVars, parVars, srvVars>>
    \/ part = "key" /\ Key!Resolve /\ UNCHANGED <<part, tokVars, parVars, srvVars>>
    \/ part = "params" /\ Par!Parse /\ UNCHANGED <<part, tokVars, keyVars, srvVars>>
    \/ part = "server" /\ Srv!Next /\ UNCHANGED <<part, tokVars, keyVars, parVars>>

(* The server's fairness; its actions are disabled in the other parts,  *)
(* whose process has ended. *)
Spec == Init /\ [][Next]_vars /\ Srv!Fairness

(* The properties of each part, as stated in their modules. *)
AcceptedOnlyIfValid == Tok!AcceptedOnlyIfValid
RejectionIsFinal == Tok!RejectionIsFinal
BothIdentifiersResolve == Key!BothIdentifiersResolve
ParsedAsDocumented == Par!ParsedAsDocumented
ProbesAnswerAsIntended == Srv!ProbesAnswerAsIntended
ServerStarts == Srv!ServerStarts
=============================================================================
