------------------------------ MODULE SwapTokens ------------------------------
(***************************************************************************)
(* The receive side of the swap form: the two networks, the lists of       *)
(* tokens that can be received (one per pair of networks, fetched once and *)
(* cached), the selected one, and the token preselected from outside.      *)
(*                                                                         *)
(* A list is LOADING from the call of updateToTokenList to its end: while  *)
(* the list is fetched, while a token missing from it is fetched, and      *)
(* while the form update that selects the token asks for a quote.  The     *)
(* networks may change under each of these awaits.                         *)
(*                                                                         *)
(* Left out: the portfolio's own tokens in the lists, sorting, searching,  *)
(* and banned tokens.                                                      *)
(***************************************************************************)
EXTENDS Naturals, FiniteSets

CONSTANTS Chains,
          HomeChain,        \* network 1, which a reset goes back to
          Addresses,        \* token addresses, the same one may exist on several networks
          Listed,           \* Listed[c]: what the provider lists for network c
          Known,            \* Known[c]: what it knows when asked for one token
          NoToken,
          MaxPicks,         \* bound on what the user does
          TokensEnvironment \* what may happen while a list loads

ASSUME TokensAssumption ==
    /\ HomeChain \in Chains /\ NoToken \notin Addresses /\ MaxPicks \in Nat
    /\ \A c \in Chains : Listed[c] \subseteq Known[c] /\ Known[c] \subseteq Addresses
\* "return": go back to networks whose list still loads; "preselect": open the
\* form with a preselected token meanwhile; "fail": a list cannot be fetched.
ASSUME TokensEnvironmentAssumption == TokensEnvironment \subseteq {"return", "preselect", "fail"}

VARIABLES fromChain, toChain,
          toToken,     \* toSelectedToken, with its network
          preselected, \* #preselectedToToken
          lists,       \* #toTokenList: what the provider gave, by pair of networks
          emptied,     \* the pairs whose list to show a reset has emptied
          loads,       \* updateToTokenList calls in flight, by pair of networks
          picks        \* what the user has done

tokenVars == <<fromChain, toChain, toToken, preselected, lists, emptied, loads, picks>>

Pairs == Chains \X Chains
Tokens == [chain : Chains, address : Addresses]
NoLoad == [step |-> "none", select |-> NoToken]

TokensTypeOK ==
    /\ {fromChain, toChain} \subseteq Chains
    /\ {toToken, preselected} \subseteq Tokens \cup {NoToken}
    /\ lists \in [Pairs -> SUBSET Addresses] /\ emptied \subseteq Pairs /\ picks \in 0..MaxPicks
    /\ loads \in [Pairs -> [step : {"none", "list", "token", "form"},
                            select : Addresses \cup {NoToken}]]

TokensInit == /\ fromChain = HomeChain /\ toChain = HomeChain
              /\ toToken = NoToken /\ preselected = NoToken
              /\ lists = [k \in Pairs |-> {}] /\ emptied = {} /\ picks = 0
              /\ loads = [k \in Pairs |-> NoLoad]

-----------------------------------------------------------------------------
\* #toTokenListKey, updateToTokenListStatus
currentPair == <<fromChain, toChain>>
Loading(k) == loads[k].step # "none"
Shown(k) == IF k \in emptied THEN {} ELSE lists[k]
Fetched(k) == Listed[k[2]] \subseteq lists[k]

\* Mutant: no address to select is taken for one.
SelectFromNothing(k, now, select, token, tokens) ==
    /\ loads' = [loads EXCEPT ![k] = NoLoad]
    /\ toToken' = IF now # k \/ token # NoToken THEN token
                  ELSE [chain |-> now[2], address |-> select]

\* Mutant: the form's networks are not compared with the list's.
SelectFromAny(k, now, select, token, tokens) ==
    IF token # NoToken \/ select = NoToken
    THEN loads' = [loads EXCEPT ![k] = NoLoad] /\ toToken' = token
    ELSE IF select \in tokens
    THEN /\ loads' = [loads EXCEPT ![k] = [step |-> "form", select |-> NoToken]]
         /\ toToken' = [chain |-> k[2], address |-> select]
    ELSE /\ loads' = [loads EXCEPT ![k] = [step |-> "token", select |-> select]]
         /\ toToken' = token

\* updateToTokenList once the tokens of pair k are there: select one of them,
\* or ask for it alone when the list lacks it.  now is the pair of the form.
SelectFrom(k, now, select, token, tokens) ==
    IF now # k \/ token # NoToken \/ select = NoToken
    THEN loads' = [loads EXCEPT ![k] = NoLoad] /\ toToken' = token
    ELSE IF select \in tokens
    THEN /\ loads' = [loads EXCEPT ![k] = [step |-> "form", select |-> NoToken]]
         /\ toToken' = [chain |-> now[2], address |-> select]
    ELSE /\ loads' = [loads EXCEPT ![k] = [step |-> "token", select |-> select]]
         /\ toToken' = token

\* updateToTokenList(shouldReset, addressToSelect) for the new pair k, up to
\* its first await; a cached list may have expired.
UpdateToTokenList(k, shouldReset, select, token) ==
    LET kept == IF shouldReset THEN NoToken ELSE token
    IN IF Loading(k) THEN UNCHANGED <<loads, emptied>> /\ toToken' = token
       ELSE \/ /\ Fetched(k) /\ emptied' = emptied \ {k}
               /\ SelectFrom(k, k, select, kept, lists[k])
            \/ /\ loads' = [loads EXCEPT ![k] = [step |-> "list", select |-> select]]
               /\ toToken' = kept /\ UNCHANGED emptied

\* The part of updateForm about the networks and the receive token, of which
\* wish is the address asked for.
UpdateTokens(from, to, wish, pre) ==
    LET k == <<from, to>>
        found == wish \in Shown(k)
        token == IF found THEN [chain |-> to, address |-> wish] ELSE toToken
        changed == k # currentPair
        restore == IF pre # NoToken /\ pre.chain = to THEN pre.address ELSE NoToken
    IN /\ fromChain' = from /\ toChain' = to /\ preselected' = pre
       /\ IF changed \/ (wish # NoToken /\ ~found)
          THEN UpdateToTokenList(k, changed, IF wish # NoToken THEN wish ELSE restore, token)
          ELSE UNCHANGED <<loads, emptied>> /\ toToken' = token

MayGoTo(k) == "return" \in TokensEnvironment \/ ~Loading(k)

\* The user picks a network or a token to receive.
PickToChain(c) == /\ c # toChain /\ MayGoTo(<<fromChain, c>>)
                  /\ UpdateTokens(fromChain, c, NoToken, NoToken)
                  /\ UNCHANGED lists
PickToToken(a) == /\ a \in Shown(currentPair)
                  /\ UpdateTokens(fromChain, toChain, a, NoToken)
                  /\ UNCHANGED lists

\* Another token to send is selected, by the user or by
\* updatePortfolioTokenList, on another network.
FromTokenChanges(c) ==
    /\ c # fromChain
    /\ \E to \in {toChain} \cup (IF toToken = NoToken THEN {c} ELSE {}) :
         MayGoTo(<<c, to>>) /\ UpdateTokens(c, to, NoToken, preselected)
    /\ UNCHANGED lists

\* initForm with a token to receive chosen elsewhere in the wallet.
InitWithToken(c, a) ==
    /\ "preselect" \in TokensEnvironment \/ ~Loading(<<fromChain, c>>)
    /\ UpdateTokens(fromChain, c, a, [chain |-> c, address |-> a])
    /\ UNCHANGED lists

\* reset: the form forgets its tokens, and the list shown is emptied.
ResetTokens ==
    /\ fromChain' = HomeChain /\ toChain' = HomeChain
    /\ toToken' = NoToken /\ preselected' = NoToken
    /\ emptied' = emptied \cup {currentPair}
    /\ UNCHANGED <<lists, loads>>

\* switchFromAndToTokens with both tokens there; the old one to send, of
\* which back is the address, becomes the one to receive.
SwitchSides(back) ==
    /\ toToken # NoToken /\ MayGoTo(<<toChain, fromChain>>)
    /\ fromChain' = toChain /\ toChain' = fromChain /\ preselected' = NoToken
    /\ UpdateToTokenList(<<toChain, fromChain>>, TRUE, back, toToken)
    /\ UNCHANGED lists

-----------------------------------------------------------------------------
\* getToTokenList answers, or fails and leaves what was cached.
ListAnswered(k, ok) ==
    /\ loads[k].step = "list" /\ (ok \/ "fail" \in TokensEnvironment)
    /\ LET tokens == IF ok THEN Listed[k[2]] ELSE lists[k]
       IN /\ lists' = [lists EXCEPT ![k] = tokens]
          /\ SelectFrom(k, currentPair, loads[k].select, toToken, tokens)
    /\ emptied' = emptied \ {k}
    /\ UNCHANGED <<fromChain, toChain, preselected>>

\* #fetchAndCacheToTokenToSelect answers: the token joins the list it was
\* asked for, and is asked of the form, whose networks may be others by now.
TokenAnswered(k) ==
    LET a == loads[k].select
        found == a \in Shown(currentPair) \/ k = currentPair
    IN /\ loads[k].step = "token" /\ a \in Known[k[2]]
       /\ lists' = [lists EXCEPT ![k] = @ \cup {a}]
       /\ toToken' = IF found THEN [chain |-> toChain, address |-> a] ELSE toToken
       /\ loads' = [q \in Pairs |->
            IF q = k THEN [step |-> "form", select |-> NoToken]
            ELSE IF q = currentPair /\ ~found /\ ~Loading(q)
                 THEN [step |-> "list", select |-> a] ELSE loads[q]]
       /\ UNCHANGED <<fromChain, toChain, preselected, emptied>>

\* The token is unknown or the request fails, or the form update has ended.
LoadEnds(k) ==
    /\ loads[k].step \in {"token", "form"}
    /\ loads' = [loads EXCEPT ![k] = NoLoad]
    /\ UNCHANGED <<fromChain, toChain, toToken, preselected, lists, emptied>>

\* #addToTokenByAddress
TokenAddedByAddress(k, a) ==
    /\ a \in Known[k[2]] \ lists[k] /\ Fetched(k)
    /\ lists' = [lists EXCEPT ![k] = @ \cup {a}]
    /\ UNCHANGED <<fromChain, toChain, toToken, preselected, emptied, loads>>

UserPicks ==
    \/ ResetTokens
    \/ \E c \in Chains : PickToChain(c) \/ FromTokenChanges(c)
    \/ \E a \in Addresses : \/ PickToToken(a) \/ SwitchSides(a)
                            \/ \E c \in Chains : InitWithToken(c, a)
                            \/ \E k \in Pairs : TokenAddedByAddress(k, a)

ProviderAnswers ==
    \E k \in Pairs : \/ TokenAnswered(k) \/ LoadEnds(k)
                     \/ \E ok \in BOOLEAN : ListAnswered(k, ok)

TokensNext == \/ UserPicks /\ picks < MaxPicks /\ picks' = picks + 1
              \/ ProviderAnswers /\ UNCHANGED picks

TokensSpec == TokensInit /\ [][TokensNext]_tokenVars

-----------------------------------------------------------------------------
\* The token to receive is one of the network to receive on, whatever list
\* or token comes late.
ReceivesOnToChain == toToken # NoToken => toToken.chain = toChain

=============================================================================
