-------------------------------- MODULE MC_Swap --------------------------------
(***************************************************************************)
(* The three parts of SwapAndBridgeController for TLC.  They share no      *)
(* state, so that a behaviour is about one of them, chosen at the start.   *)
(***************************************************************************)
EXTENDS SwapAndBridge, ActiveRoutes, SwapTokens

VARIABLE focus

mcForms == {"f1", "f2"}
mcChainOf == [f \in mcForms |-> 1]
mcListed == [c \in Chains |-> {"native"}]
mcKnown == [c \in Chains |-> IF c = 1 THEN {"native", "token"} ELSE {"native"}]

Init == /\ focus \in {"form", "routes", "tokens"}
        /\ SwapInit /\ RoutesInit /\ TokensInit

Next == /\ UNCHANGED focus
        /\ \/ focus = "form" /\ SwapNext /\ UNCHANGED <<routeVars, tokenVars>>
           \/ focus = "routes" /\ RoutesNext /\ UNCHANGED <<swapVars, tokenVars>>
           \/ focus = "tokens" /\ TokensNext /\ UNCHANGED <<swapVars, routeVars>>

vars == <<focus, swapVars, routeVars, tokenVars>>
Spec == Init /\ [][Next]_vars /\ SwapFairness /\ RoutesFairness

\* All variables of the three modules have their types.
TypeOK == SwapTypeOK /\ RoutesTypeOK /\ TokensTypeOK
================================================================================
