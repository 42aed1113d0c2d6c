---------------------------- MODULE MC_BaseClasses ----------------------------
(***************************************************************************)
(* The classes other controllers are built on, RecurringTimeout and        *)
(* EventEmitter, and the phishing list with the statuses of apps, which    *)
(* depends on both, for TLC.  They share no state in the models, so that a *)
(* behaviour is about one of them, chosen at the start.                    *)
(***************************************************************************)
EXTENDS RecurringTimeout, EventEmitter, DappStatuses

CONSTANT BaseFocuses
VARIABLE focus

Opt(t, run, overlap) == [timeout |-> t, runImmediately |-> run, allowOverlap |-> overlap]

\* The shapes callers use: start(), start({runImmediately}),
\* restart({runImmediately, allowOverlap}) and restart({timeout}).
MCOptions ==
    {Opt(NoTimeout, FALSE, FALSE), Opt(NoTimeout, TRUE, FALSE),
     Opt(NoTimeout, TRUE, TRUE), Opt("short", FALSE, FALSE)}

MCTimeouts == {"short", "long"}

\* Two of the three subscribers give the same id.
MCIdOf == [s \in Subscribers |-> IF s = "screen" THEN NoId ELSE "id"]

\* One site is listed, taken off the list, and another one is listed.
MCListAt == <<{"s2"}, {"s1"}>>

BaseInit ==
    /\ focus \in BaseFocuses /\ Init /\ EmitterInit /\ StatusesInit
    /\ focus # "statuses" => DOMAIN shown = {}

BaseNext ==
    /\ UNCHANGED focus
    /\ IF focus = "interval" THEN Next ELSE UNCHANGED vars
    /\ IF focus = "emitter" THEN EmitterNext ELSE UNCHANGED emitterVars
    /\ IF focus = "statuses" THEN StatusesNext ELSE UNCHANGED statusVars

BaseSpec ==
    /\ BaseInit /\ [][BaseNext]_<<focus, vars, emitterVars, statusVars>>
    /\ Fairness /\ EmitterFairness
    /\ focus = "statuses" => StatusesFairness

\* All variables of the modules have their types.
BaseTypeOK == TypeOK /\ EmitterTypeOK /\ StatusesTypeOK
=============================================================================
