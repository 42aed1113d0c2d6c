------------------------------ MODULE SwapProofs ------------------------------
(***************************************************************************)
(* What the swap form promises for any forms, routes, networks, lists and  *)
(* tokens, and any number of quotes and of buildings in flight.            *)
(***************************************************************************)
EXTENDS MC_Swap, FiniteSetTheorems, TLAPS

-----------------------------------------------------------------------------
(* The receive token of the form is one of the receive network.  The       *)
(* property is inductive: a change of networks forgets the token or        *)
(* selects one of the new network, and what comes late is compared with    *)
(* the networks of that moment.  It does not hold if the form goes back to *)
(* networks whose list still loads, which the assumption leaves out.       *)

\* The token after a step that goes to network to: none, or one of it.
On(to, token) == token = NoToken \/ token.chain = to

LEMMA SelectedOnChain ==
    ASSUME NEW k, NEW now, NEW select, NEW token, NEW tokens,
           SelectFrom(k, now, select, token, tokens), On(now[2], token)
    PROVE  On(now[2], toToken')
  BY DEF SelectFrom, On

LEMMA ListUpdatedOnChain ==
    ASSUME NEW from, NEW to, NEW shouldReset \in BOOLEAN, NEW select, NEW token,
           UpdateToTokenList(<<from, to>>, shouldReset, select, token),
           IF Loading(<<from, to>>) THEN On(to, token) ELSE shouldReset \/ On(to, token)
    PROVE  On(to, toToken')
  <1> DEFINE k == <<from, to>>
             kept == IF shouldReset THEN NoToken ELSE token
  <1>1. k[2] = to
    OBVIOUS
  <1>2. CASE Loading(k)
    BY <1>2 DEF UpdateToTokenList
  <1>3. CASE ~Loading(k)
    <2>1. On(to, kept)
      BY <1>3 DEF On
    <2>2. SelectFrom(k, k, select, kept, lists[k]) \/ toToken' = kept
      BY <1>3 DEF UpdateToTokenList
    <2> QED  BY <1>1, <2>1, <2>2, SelectedOnChain
  <1> QED  BY <1>2, <1>3

LEMMA FormUpdatedOnChain ==
    ASSUME ReceivesOnToChain, NEW from, NEW to, NEW wish, NEW pre,
           UpdateTokens(from, to, wish, pre),
           Loading(<<from, to>>) => <<from, to>> = currentPair
    PROVE  ReceivesOnToChain'
  <1> DEFINE k == <<from, to>>
             found == wish \in Shown(k)
             token == IF found THEN [chain |-> to, address |-> wish] ELSE toToken
             changed == k # currentPair
  <1>1. toChain' = to
    BY DEF UpdateTokens
  <1>2. ~changed => On(to, token)
    BY DEF currentPair, ReceivesOnToChain, On
  <1>3. IF Loading(k) THEN On(to, token) ELSE changed \/ On(to, token)
    BY <1>2
  <1>4. changed \in BOOLEAN
    OBVIOUS
  <1>5. \/ \E select : UpdateToTokenList(k, changed, select, token)
        \/ ~changed /\ toToken' = token
    BY DEF UpdateTokens
  <1>6. On(to, toToken')
    BY <1>2, <1>3, <1>4, <1>5, ListUpdatedOnChain
  <1> QED  BY <1>1, <1>6 DEF On, ReceivesOnToChain

LEMMA NextReceivesOnToChain ==
    ASSUME TokensEnvironment \subseteq {"fail"}, ReceivesOnToChain, [TokensNext]_tokenVars
    PROVE  ReceivesOnToChain'
  <1>0. "return" \notin TokensEnvironment /\ "preselect" \notin TokensEnvironment
    OBVIOUS
  <1>1. ASSUME NEW c \in Chains, PickToChain(c) PROVE ReceivesOnToChain'
    BY <1>0, <1>1, FormUpdatedOnChain DEF PickToChain, MayGoTo
  <1>2. ASSUME NEW a \in Addresses, PickToToken(a) PROVE ReceivesOnToChain'
    BY <1>2, FormUpdatedOnChain DEF PickToToken, currentPair
  <1>3. ASSUME NEW c \in Chains, FromTokenChanges(c) PROVE ReceivesOnToChain'
    BY <1>0, <1>3, FormUpdatedOnChain DEF FromTokenChanges, MayGoTo
  <1>4. ASSUME NEW c \in Chains, NEW a \in Addresses, InitWithToken(c, a)
         PROVE ReceivesOnToChain'
    BY <1>0, <1>4, FormUpdatedOnChain DEF InitWithToken
  <1>5. CASE ResetTokens
    BY <1>5 DEF ResetTokens, ReceivesOnToChain
  <1>6. ASSUME NEW back \in Addresses, SwitchSides(back) PROVE ReceivesOnToChain'
    <2>1. ~Loading(<<toChain, fromChain>>)
          /\ UpdateToTokenList(<<toChain, fromChain>>, TRUE, back, toToken) /\
              toChain' = fromChain
      BY <1>0, <1>6 DEF SwitchSides, MayGoTo
    <2>2. On(fromChain, toToken')
      BY <2>1, ListUpdatedOnChain
    <2> QED  BY <2>1, <2>2 DEF On, ReceivesOnToChain
  <1>7. ASSUME NEW k \in Pairs, NEW ok \in BOOLEAN, ListAnswered(k, ok) PROVE ReceivesOnToChain'
    <2>1. PICK tokens : SelectFrom(k, currentPair, loads[k].select, toToken, tokens)
      BY <1>7 DEF ListAnswered
    <2>2. currentPair[2] = toChain
      BY DEF currentPair
    <2>3. On(toChain, toToken)
      BY DEF On, ReceivesOnToChain
    <2>4. On(toChain, toToken')
      BY <2>1, <2>2, <2>3, SelectedOnChain
    <2> QED  BY <1>7, <2>4 DEF ListAnswered, On, ReceivesOnToChain
  <1>8. ASSUME NEW k \in Pairs, TokenAnswered(k) PROVE ReceivesOnToChain'
    <2>1. toToken' = toToken \/ \E a : toToken' = [chain |-> toChain, address |-> a]
      BY <1>8 DEF TokenAnswered
    <2> QED  BY <1>8, <2>1 DEF TokenAnswered, ReceivesOnToChain
  <1>9. ASSUME UNCHANGED <<toChain, toToken>> PROVE ReceivesOnToChain'
    BY <1>9 DEF ReceivesOnToChain
  <1> QED
    BY <1>1, <1>2, <1>3, <1>4, <1>5, <1>6, <1>7, <1>8, <1>9
       DEF TokensNext, UserPicks, ProviderAnswers, TokenAddedByAddress, LoadEnds, tokenVars

\* The token to receive is one of the network to receive on, whatever list or
\* token comes late, for any networks and tokens (updateToTokenList,
\* updateForm).
THEOREM ReceivesOnToChainHolds ==
    ASSUME TokensEnvironment \subseteq {"fail"} PROVE TokensSpec => []ReceivesOnToChain
  <1>1. TokensInit => ReceivesOnToChain
    BY DEF TokensInit, ReceivesOnToChain
  <1>2. ReceivesOnToChain /\ [TokensNext]_tokenVars => ReceivesOnToChain'
    BY NextReceivesOnToChain
  <1> QED  BY <1>1, <1>2, PTL DEF TokensSpec

-----------------------------------------------------------------------------
(* The quote and the op of the form.  What is shown belongs to the form    *)
(* because every edit gives out a new id: what was fetched or built before *)
(* the edit has an earlier one, and comes back to no effect.               *)

\* No id of a fetch, of a building or of the op is one that will be given out.
IdsIssued ==
    /\ \A u \in fetches : u.id <= issued
    /\ \A i \in Inits : inits[i] # Nothing => inits[i].id <= issued
    /\ swapOp # Nothing => swapOp.id <= issued

\* A quote is fetched once under its id, for the form as it is, and the form
\* loads only while that goes on.
FetchOfForm ==
    /\ \A u, v \in fetches : u.id = v.id => u = v
    /\ \A u \in fetches : u.id = quoteId /\ form # Empty => u.form = form
    /\ quoteStatus = "LOADING" => \E u \in fetches : u.id = quoteId

\* While it is fetched nothing is built under its id, and the earlier quote
\* is out of use: the form loads, or the quote is gone, or all its routes
\* failed.
FetchFirst ==
    \A u \in fetches : u.id = quoteId =>
        /\ \A i \in Inits : inits[i] # Nothing => inits[i].id # quoteId
        /\ CurrentOp = Nothing
        /\ quoteStatus = "LOADING" \/ quote = Nothing \/ quote.failed = Routes

\* A quote that is shown and not used up, and what is built under the current
\* id, are those of the form.
QuoteOfForm ==
    form # Empty /\ quote # Nothing /\ quoteStatus # "LOADING" /\ quote.failed # Routes
        => quote.form = form
BuiltOfForm ==
    form # Empty =>
        /\ \A i \in Inits : inits[i] # Nothing /\ inits[i].id = quoteId => inits[i].form = form
        /\ CurrentOp # Nothing => CurrentOp.form = form

FormInv == IdsIssued /\ FetchOfForm /\ FetchFirst /\ QuoteOfForm /\ BuiltOfForm

\* Who proceeded to sign did so when nothing was being built.
ProceededQuietly == hasProceeded => Quiescent

-----------------------------------------------------------------------------
(* What the form's status says, and what starts to be built.               *)

Usable(q, phase) ==
    ~hasProceeded /\ form # Empty /\ ~batchError /\ phase # "LOADING" /\ q # Nothing

LEMMA StatusSays ==
    ASSUME NEW q, NEW phase, NEW op
    PROVE  LET s == StatusOf(form, q, phase, op) IN
           /\ s \in {"ReadyToEstimate", "ReadyToSubmit", "InvalidRouteSelected"} => Usable(q, phase)
           /\ s \in {"ReadyToEstimate", "ReadyToSubmit"} => q.selected \notin q.failed
           /\ s = "ReadyToSubmit" => op # Nothing
  BY DEF StatusOf, Usable

\* A building starts in a free slot, for the quote q.
Opened(left, q) ==
    \E i \in Inits, r \in Routes :
        /\ left[i] = Nothing
        /\ inits' = [left EXCEPT ![i] = [id |-> quoteId, step |-> "state", form |-> q.form,
                                        route |-> r, name |-> r]]

LEMMA StartsBuilding ==
    ASSUME NEW q, NEW phase, q # Nothing => q.selected \in Routes, Starts(q, phase, quoteId)
    PROVE  \/ inits' = inits
           \/ Opened(inits, q) /\ Usable(q, phase) /\ q.selected \notin q.failed
  <1>1. CASE StatusOf(form, q, phase, CurrentOp) \in {"ReadyToEstimate", "ReadyToSubmit"}
    <2>1. Usable(q, phase) /\ q.selected \notin q.failed
      BY <1>1, StatusSays
    <2>2. q.selected \in Routes
      BY <2>1 DEF Usable
    <2> QED  BY <1>1, <2>1, <2>2 DEF Starts, Opened
  <1>2. CASE StatusOf(form, q, phase, CurrentOp) \notin {"ReadyToEstimate", "ReadyToSubmit"}
    BY <1>2 DEF Starts
  <1> QED  BY <1>1, <1>2

\* After a failed route the quote is the same but for its routes; the form
\* leaves the loading state only if no route is left, or if it has to.
LEMMA RouteFails ==
    ASSUME NEW left, NEW phase, quote \in Quotes \cup {Nothing}, FailsRoute(left, phase)
    PROVE  \/ inits' = left /\ quote' = Nothing /\ quote = Nothing /\ quoteStatus' = quoteStatus
           \/ /\ quote # Nothing /\ quote' \in Quotes /\ quote'.form = quote.form
              /\ quote.failed \subseteq quote'.failed
              /\ \/ quoteStatus' = quoteStatus
                 \/ quoteStatus' = phase
                 \/ quoteStatus' = "INITIAL" /\ quote'.failed = Routes
              /\ \/ inits' = left
                 \/ /\ Opened(left, quote) /\ Usable(quote, quoteStatus)
                    /\ quote'.failed # Routes /\ quoteStatus' = quoteStatus
  <1>1. CASE quote = Nothing
    BY <1>1 DEF FailsRoute
  <1>2. CASE quote # Nothing
    <2> DEFINE q == [quote EXCEPT !.failed = quote.failed \cup {quote.selected}]
               others == Routes \ q.failed
    <2>1. quote \in Quotes
      BY <1>2
    <2>2. /\ q \in Quotes /\ q.form = quote.form /\ quote.failed \subseteq q.failed
          /\ q.failed \subseteq Routes /\ q.manual = quote.manual
      BY <2>1 DEF Quotes
    <2>3. CASE q.manual \/ others = {}
      <3>1. quote' = q /\ inits' = left
        BY <1>2, <2>3 DEF FailsRoute
      <3>2. quoteStatus' = phase \/ (quoteStatus' = "INITIAL" /\ others = {})
        BY <1>2, <2>3 DEF FailsRoute
      <3>3. others = {} => q.failed = Routes
        BY <2>2
      <3> QED  BY <1>2, <2>2, <3>1, <3>2, <3>3
    <2>4. CASE ~(q.manual \/ others = {})
      <3>1. PICK r \in others :
               /\ quoteStatus' = quoteStatus
               /\ IF StatusOf(form, q, quoteStatus, CurrentOp) = "InvalidRouteSelected"
                  THEN /\ quote' = [q EXCEPT !.selected = r]
                       /\ IF quoteId = 0 THEN inits' = left
                          ELSE \E i \in Inits :
                                 /\ left[i] = Nothing
                                 /\ inits' = [left EXCEPT ![i] =
                                      [id |-> quoteId, step |-> "state", form |-> q.form,
                                       route |-> r, name |-> r]]
                  ELSE quote' = q /\ inits' = left
        BY <1>2, <2>4 DEF FailsRoute
      <3>2. r \in Routes /\ q.failed # Routes
        OBVIOUS
      <3>3. CASE StatusOf(form, q, quoteStatus, CurrentOp) = "InvalidRouteSelected"
        <4>1. /\ quote' \in Quotes /\ quote'.form = quote.form /\ quote'.failed = q.failed
          BY <2>2, <3>1, <3>2, <3>3 DEF Quotes
        <4>2. Usable(quote, quoteStatus)
          BY <3>3, StatusSays, <1>2 DEF Usable
        <4>3. inits' = left \/ Opened(left, quote)
          BY <2>2, <3>1, <3>2, <3>3 DEF Opened
        <4> QED  BY <1>2, <2>2, <3>1, <3>2, <4>1, <4>2, <4>3
      <3>4. CASE StatusOf(form, q, quoteStatus, CurrentOp) # "InvalidRouteSelected"
        BY <1>2, <2>2, <3>1, <3>4
      <3> QED  BY <3>3, <3>4
    <2> QED  BY <2>3, <2>4
  <1> QED  BY <1>1, <1>2

-----------------------------------------------------------------------------
(* Type correctness.                                                       *)

Slots == [Inits -> InitCalls \cup {Nothing}]

LEMMA OpenedTyped ==
    ASSUME SwapTypeOK, NEW left \in Slots, NEW q \in Quotes, Opened(left, q)
    PROVE  inits' \in Slots
  <1>1. quoteId \in 0..MaxQuotes
    BY BoundsAssumption DEF SwapTypeOK
  <1>2. q.form \in Forms
    BY DEF Quotes
  <1> QED  BY <1>1, <1>2 DEF Opened, Slots, InitCalls

LEMMA DroppedTyped ==
    ASSUME SwapTypeOK, NEW i \in Inits
    PROVE  Dropped(i) \in Slots
  BY DEF SwapTypeOK, Dropped, Slots

LEMMA FailedRouteTyped ==
    ASSUME SwapTypeOK, NEW left \in Slots, NEW phase \in {"INITIAL", "LOADING"},
           FailsRoute(left, phase)
    PROVE  /\ quote' \in Quotes \cup {Nothing} /\ quoteStatus' \in {"INITIAL", "LOADING"}
           /\ inits' \in Slots
  <1>1. quote \in Quotes \cup {Nothing} /\ quoteStatus \in {"INITIAL", "LOADING"}
    BY DEF SwapTypeOK
  <1> QED  BY <1>1, RouteFails, OpenedTyped

LEMMA AskedTyped ==
    ASSUME SwapTypeOK, NEW f \in Forms \cup {Empty}, NEW keep \in BOOLEAN,
           NEW reuse \in BOOLEAN, NEW debounced \in BOOLEAN, AsksQuote(f, keep, reuse, debounced)
    PROVE  /\ quoteStatus' \in {"INITIAL", "LOADING"} /\ issued' \in 0..MaxQuotes
           /\ quoteId' \in 0..issued' /\ fetches' \subseteq Fetches /\ routesError' \in BOOLEAN
  <1>1. /\ issued \in 0..MaxQuotes /\ quoteId \in 0..issued /\ fetches \subseteq Fetches
        /\ quoteStatus \in {"INITIAL", "LOADING"} /\ routesError \in BOOLEAN /\ MaxQuotes \in Nat
    BY BoundsAssumption DEF SwapTypeOK
  <1>2. CASE hasProceeded \/ batchError
    BY <1>1, <1>2 DEF AsksQuote
  <1>3. CASE ~(hasProceeded \/ batchError)
    <2> DEFINE new == [id |-> issued + 1, step |-> IF debounced THEN "debounce" ELSE "fetching",
                       form |-> f, keep |-> keep, reuse |-> reuse]
    <2>1. issued < MaxQuotes /\ issued' = issued + 1 /\ quoteId' = issued + 1 /\ routesError' = FALSE
      BY <1>3 DEF AsksQuote
    <2>2. issued + 1 \in 1..MaxQuotes
      BY <1>1, <2>1
    <2>3. f # Empty => new \in Fetches
      BY <2>2 DEF Fetches
    <2>4. \/ quoteStatus' = "INITIAL" /\ fetches' = fetches
          \/ f # Empty /\ quoteStatus' = "LOADING" /\ fetches' = fetches \cup {new}
      BY <1>3 DEF AsksQuote
    <2>5. issued' \in 0..MaxQuotes /\ quoteId' \in 0..issued'
      BY <1>1, <2>1, <2>2
    <2>6. fetches' \subseteq Fetches
      BY <1>1, <2>3, <2>4
    <2> QED  BY <2>1, <2>4, <2>5, <2>6
  <1> QED  BY <1>2, <1>3

LEMMA InitSwapTyped == SwapInit => SwapTypeOK
  <1> SUFFICES ASSUME SwapInit PROVE SwapTypeOK
    OBVIOUS
  <1>1. issued \in 0..MaxQuotes /\ quoteId \in 0..issued
    BY BoundsAssumption DEF SwapInit
  <1>2. inits \in [Inits -> InitCalls \cup {Nothing}] /\ fetches \subseteq Fetches
    BY DEF SwapInit
  <1> QED  BY <1>1, <1>2 DEF SwapInit, SwapTypeOK

LEMMA ResetTyped ==
    ASSUME SwapTypeOK, ResetForm
    PROVE  /\ form' \in Forms \cup {Empty} /\ quote' \in Quotes \cup {Nothing}
           /\ quoteStatus' \in {"INITIAL", "LOADING"} /\ quoteId' = 0
           /\ swapOp' \in SwapOps \cup {Nothing} /\ hasProceeded' \in BOOLEAN
  BY DEF ResetForm

LEMMA UserTyped ==
    ASSUME SwapTypeOK, SwapUser \/ RefreshQuote
    PROVE  SwapTypeOK'
  <1>1. CASE OpenScreen \/ CloseScreen \/ Broadcast
    <2>1. /\ UNCHANGED <<issued, fetches, inits, batchError>>
          /\ {sessions, onRoute, interval, routesError}' \subseteq BOOLEAN
          /\ ResetForm \/ UNCHANGED <<form, quote, quoteStatus, quoteId, swapOp, hasProceeded>>
      BY <1>1 DEF OpenScreen, CloseScreen, Broadcast, SwapTypeOK
    <2>2. 0 \in 0..issued
      BY DEF SwapTypeOK
    <2> QED  BY <2>1, <2>2, ResetTyped DEF SwapTypeOK
  <1>5. CASE ReturnToScreen
    BY <1>5 DEF ReturnToScreen, SwapTypeOK
  <1>6. CASE SwitchTokens
    BY <1>6 DEF SwitchTokens, SwapTypeOK
  <1>7. CASE BatchChanges
    BY <1>7 DEF BatchChanges, SwapTypeOK
  <1>8. CASE Proceed
    BY <1>8 DEF Proceed, SwapTypeOK
  <1>2. CASE UpdateForm
    <2>1. PICK f \in Forms \cup {Empty}, reuse \in BOOLEAN, newPriority \in BOOLEAN :
             /\ form' = f
             /\ AsksQuote(f, FALSE, reuse, TRUE)
             /\ quote' = IF newPriority \/ (f = Empty /\ ~batchError) THEN Nothing ELSE quote
      BY <1>2 DEF UpdateForm
    <2>2. UNCHANGED <<sessions, onRoute, interval, inits, swapOp, hasProceeded, batchError>>
      BY <1>2 DEF UpdateForm
    <2>3. /\ quoteStatus' \in {"INITIAL", "LOADING"} /\ issued' \in 0..MaxQuotes
          /\ quoteId' \in 0..issued' /\ fetches' \subseteq Fetches /\ routesError' \in BOOLEAN
      BY <2>1, AskedTyped
    <2> QED  BY <2>1, <2>2, <2>3 DEF SwapTypeOK
  <1>3. CASE SelectRoute
    <2>1. /\ quote # Nothing
          /\ UNCHANGED <<form, sessions, onRoute, interval, quoteStatus, quoteId, issued, fetches,
                         swapOp, hasProceeded, batchError, routesError>>
      BY <1>3 DEF SelectRoute
    <2>2. PICK r \in Routes \ quote.failed :
             LET q == [quote EXCEPT !.selected = r, !.manual = TRUE] IN
               quote' = q /\ Starts(q, quoteStatus, quoteId)
      BY <1>3 DEF SelectRoute
    <2>3. quote' \in Quotes /\ Starts(quote', quoteStatus, quoteId)
      BY <2>1, <2>2 DEF SwapTypeOK, Quotes
    <2>4. inits' = inits \/ Opened(inits, quote')
      BY <2>3, StartsBuilding DEF Quotes
    <2>5. inits' \in Slots
      BY <2>3, <2>4, OpenedTyped DEF SwapTypeOK, Slots
    <2> QED  BY <2>1, <2>3, <2>5 DEF SwapTypeOK, Slots
  <1>4. CASE RefreshQuote
    <2>1. UNCHANGED <<form, sessions, onRoute, quote, inits, swapOp, hasProceeded, batchError>>
      BY <1>4 DEF RefreshQuote
    <2>2. \/ AsksQuote(form, TRUE, FALSE, FALSE) /\ interval' = interval
          \/ interval' = FALSE /\ UNCHANGED <<quoteStatus, quoteId, issued, fetches, routesError>>
      BY <1>4 DEF RefreshQuote
    <2>3. CASE AsksQuote(form, TRUE, FALSE, FALSE) /\ interval' = interval
      <3>1. /\ quoteStatus' \in {"INITIAL", "LOADING"} /\ issued' \in 0..MaxQuotes
            /\ quoteId' \in 0..issued' /\ fetches' \subseteq Fetches /\ routesError' \in BOOLEAN
        BY <2>3, AskedTyped DEF SwapTypeOK
      <3> QED  BY <2>1, <2>3, <3>1 DEF SwapTypeOK
    <2>4. CASE interval' = FALSE /\ UNCHANGED <<quoteStatus, quoteId, issued, fetches, routesError>>
      BY <2>1, <2>4 DEF SwapTypeOK
    <2> QED  BY <2>2, <2>3, <2>4
  <1> QED  BY <1>1, <1>2, <1>3, <1>4, <1>5, <1>6, <1>7, <1>8 DEF SwapUser

LEMMA FetchTyped ==
    ASSUME SwapTypeOK, NEW u \in fetches, UpdateQuote(u)
    PROVE  SwapTypeOK'
  <1>0. u \in Fetches
    BY DEF SwapTypeOK
  <1>1. ASSUME Failed(u) PROVE SwapTypeOK'
    BY <1>1 DEF Failed, Destroyed, SwapTypeOK
  <1>2. ASSUME NEW q \in Quotes \cup {Nothing}, Succeeded(u, q), u.id = quoteId PROVE SwapTypeOK'
    <2>1. inits' = inits \/ (Opened(inits, q) /\ q # Nothing)
      <3>1. Starts(q, "INITIAL", quoteId)
        BY <1>2 DEF Succeeded
      <3>2. q # Nothing => q.selected \in Routes
        BY DEF Quotes
      <3> QED  BY <3>1, <3>2, StartsBuilding DEF Usable
    <2>2. inits' \in Slots
      BY <2>1, OpenedTyped DEF SwapTypeOK, Slots
    <2> QED  BY <1>2, <2>2 DEF Succeeded, SwapTypeOK, Slots
  <1>3. CASE StopObsolete(u)
    BY <1>3 DEF StopObsolete, SwapTypeOK
  <1>4. CASE BeginFetch(u)
    <2>1. CASE form = Empty
      BY <1>1, <1>4, <2>1 DEF BeginFetch
    <2>2. CASE form # Empty /\ u.reuse /\ quote # Nothing /\ quote.form = form
      BY <1>2, <1>4, <2>2 DEF BeginFetch, SwapTypeOK
    <2>3. CASE form # Empty /\ ~(u.reuse /\ quote # Nothing /\ quote.form = form)
      <3>1. /\ fetches' = (fetches \ {u}) \cup {[u EXCEPT !.step = "fetching", !.form = form]}
            /\ quote' = IF u.keep THEN quote ELSE Nothing
            /\ quoteStatus' = IF u.keep \/ quote = Nothing THEN quoteStatus ELSE "LOADING"
            /\ UNCHANGED <<form, sessions, onRoute, interval, quoteId, issued, inits,
                           swapOp, hasProceeded, batchError, routesError>>
        BY <1>4, <2>3 DEF BeginFetch
      <3>2. [u EXCEPT !.step = "fetching", !.form = form] \in Fetches
        BY <1>0, <2>3 DEF Fetches, SwapTypeOK
      <3> QED  BY <3>1, <3>2 DEF SwapTypeOK
    <2> QED  BY <2>1, <2>2, <2>3
  <1>5. CASE QuoteAnswered(u)
    <2>1. CASE Failed(u)
      BY <1>1, <2>1
    <2>2. CASE form = u.form /\ \E r \in Routes : Succeeded(u, [form |-> form, selected |-> r,
                                                  failed |-> {}, manual |-> FALSE])
      <3>1. PICK r \in Routes : Succeeded(u, [form |-> form, selected |-> r,
                                              failed |-> {}, manual |-> FALSE])
        BY <2>2
      <3>2. [form |-> form, selected |-> r, failed |-> {}, manual |-> FALSE] \in Quotes
        BY <1>0, <2>2 DEF Fetches, Quotes
      <3> QED  BY <1>2, <1>5, <3>1, <3>2 DEF QuoteAnswered
    <2>3. CASE form # u.form /\ Succeeded(u, quote)
      BY <1>2, <1>5, <2>3 DEF QuoteAnswered, SwapTypeOK
    <2> QED  BY <1>5, <2>1, <2>2, <2>3 DEF QuoteAnswered
  <1> QED  BY <1>3, <1>4, <1>5 DEF UpdateQuote

LEMMA OpTyped ==
    ASSUME SwapTypeOK, \/ Estimated
                       \/ \E i \in Inits : BuildOp(i)
    PROVE  SwapTypeOK'
  <1>1. ASSUME NEW i \in Inits, InitObsolete(i) PROVE SwapTypeOK'
    BY <1>1, DroppedTyped DEF InitObsolete, KeepsForm, SwapTypeOK, Slots
  <1>2. ASSUME NEW i \in Inits, InitState(i) PROVE SwapTypeOK'
    <2>1. /\ UNCHANGED <<swapOp, hasProceeded>> /\ KeepsForm /\ routesError' \in BOOLEAN
      BY <1>2 DEF InitState, SwapTypeOK
    <2>2. CASE inits' = Dropped(i) /\ quoteStatus' = "INITIAL" /\ quote' = quote
      BY <2>1, <2>2, DroppedTyped DEF KeepsForm, SwapTypeOK, Slots
    <2>3. CASE /\ formStatus \in {"ReadyToEstimate", "ReadyToSubmit"}
               /\ inits' = [inits EXCEPT ![i].step = "start", ![i].form = quote.form,
                                         ![i].route = quote.selected]
               /\ UNCHANGED <<quote, quoteStatus>>
      <3>1. quote \in Quotes
        BY <2>3, StatusSays DEF formStatus, Usable, SwapTypeOK
      <3>2. inits[i] \in InitCalls
        BY <1>2 DEF InitState, SwapTypeOK
      <3>3. /\ inits \in [Inits -> InitCalls \cup {Nothing}]
            /\ quote.form \in Forms /\ quote.selected \in Routes
        BY <3>1 DEF SwapTypeOK, Quotes
      <3> DEFINE new == [inits[i] EXCEPT !.step = "start", !.form = quote.form,
                                         !.route = quote.selected]
      <3>4. new \in InitCalls
        BY <3>2, <3>3 DEF InitCalls
      <3>5. inits' = [inits EXCEPT ![i] = new]
        BY <2>3, <3>3
      <3>6. inits' \in Slots
        BY <3>3, <3>4, <3>5 DEF Slots
      <3> QED  BY <2>1, <2>3, <3>6 DEF KeepsForm, SwapTypeOK, Slots
    <2>4. CASE FailsRoute(Dropped(i), "INITIAL")
      BY <2>1, <2>4, DroppedTyped, FailedRouteTyped DEF KeepsForm, SwapTypeOK, Slots
    <2> QED  BY <1>2, <2>2, <2>3, <2>4 DEF InitState
  <1>3. ASSUME NEW i \in Inits, RouteStarted(i) PROVE SwapTypeOK'
    <2>1. /\ UNCHANGED <<swapOp, hasProceeded, routesError>> /\ KeepsForm
      BY <1>3 DEF RouteStarted
    <2>2. CASE FailsRoute(Dropped(i), "INITIAL")
      BY <2>1, <2>2, DroppedTyped, FailedRouteTyped DEF KeepsForm, SwapTypeOK, Slots
    <2>3. CASE /\ quote # Nothing
               /\ inits' = [inits EXCEPT ![i].step = "calls", ![i].name = quote.selected]
               /\ UNCHANGED <<quote, quoteStatus>>
      <3>1. quote \in Quotes /\ inits[i] \in InitCalls
        BY <1>3, <2>3 DEF RouteStarted, SwapTypeOK
      <3> DEFINE new == [inits[i] EXCEPT !.step = "calls", !.name = quote.selected]
      <3>2. new \in InitCalls /\ inits \in [Inits -> InitCalls \cup {Nothing}]
        BY <3>1 DEF InitCalls, Quotes, SwapTypeOK
      <3>4. inits' = [inits EXCEPT ![i] = new]
        BY <2>3, <3>2
      <3>3. inits' \in Slots
        BY <3>2, <3>4 DEF Slots
      <3> QED  BY <2>1, <2>3, <3>3 DEF KeepsForm, SwapTypeOK, Slots
    <2> QED  BY <1>3, <2>2, <2>3 DEF RouteStarted
  <1>4. ASSUME NEW i \in Inits, OpBuilt(i) PROVE SwapTypeOK'
    <2>1. swapOp' \in SwapOps
      BY <1>4 DEF OpBuilt, SwapTypeOK, InitCalls, SwapOps
    <2>2. hasProceeded' \in BOOLEAN
      BY <1>4 DEF OpBuilt, SwapTypeOK
    <2> QED
      BY <1>4, <2>1, <2>2, DroppedTyped DEF OpBuilt, KeepsForm, SwapTypeOK, Slots
  <1>5. CASE Estimated
    <2>1. swapOp' \in SwapOps
      BY <1>5 DEF Estimated, SwapTypeOK, SwapOps
    <2>2. UNCHANGED <<hasProceeded, routesError>> /\ KeepsForm
      BY <1>5 DEF Estimated
    <2>3. \/ UNCHANGED <<quote, quoteStatus, inits>>
          \/ FailsRoute(inits, quoteStatus)
      BY <1>5 DEF Estimated
    <2>4. /\ quote' \in Quotes \cup {Nothing} /\ quoteStatus' \in {"INITIAL", "LOADING"}
          /\ inits' \in Slots
      BY <2>3, FailedRouteTyped DEF SwapTypeOK, Slots
    <2> QED  BY <2>1, <2>2, <2>4 DEF KeepsForm, SwapTypeOK, Slots
  <1> QED  BY <1>1, <1>2, <1>3, <1>4, <1>5 DEF BuildOp

LEMMA NextSwapTyped == SwapTypeOK /\ [SwapNext]_swapVars => SwapTypeOK'
  <1>1. SwapTypeOK /\ UNCHANGED swapVars => SwapTypeOK'
    BY DEF swapVars, SwapTypeOK
  <1> QED  BY <1>1, UserTyped, FetchTyped, OpTyped DEF SwapNext

\* The form, its quote, the fetches, the buildings and the op keep their
\* types: what is selected, failed or built is a route of a quoted form.
THEOREM SwapTypeCorrect == SwapSpec => []SwapTypeOK
  BY InitSwapTyped, NextSwapTyped, PTL DEF SwapSpec

-----------------------------------------------------------------------------
(* What the form offers to sign is what it shows.                          *)

formVars == <<form, quote, quoteStatus, quoteId, issued, fetches, inits, swapOp>>

LEMMA InitFormInv == SwapInit => FormInv
  BY DEF SwapInit, FormInv, IdsIssued, FetchOfForm, FetchFirst, QuoteOfForm, BuiltOfForm, CurrentOp

LEMMA FormKept ==
    ASSUME FormInv, UNCHANGED formVars
    PROVE  FormInv'
  BY DEF formVars, FormInv, IdsIssued, FetchOfForm, FetchFirst, QuoteOfForm, BuiltOfForm, CurrentOp

\* A form that is emptied, with or without its quote and op.
LEMMA FormEmptied ==
    ASSUME SwapTypeOK, FormInv, form' = Empty, UNCHANGED <<issued, fetches, inits>>,
           \/ UNCHANGED <<quote, quoteStatus, quoteId, swapOp>>
           \/ quoteId' = 0 /\ swapOp' = Nothing /\ quoteStatus' = "INITIAL"
    PROVE  FormInv'
  <1>1. IdsIssued'
    BY DEF FormInv, IdsIssued
  <1>2. FetchOfForm'
    BY DEF FormInv, FetchOfForm
  <1>3. FetchFirst'
    <2>1. CASE UNCHANGED <<quote, quoteStatus, quoteId, swapOp>>
      BY <2>1 DEF FormInv, FetchFirst, CurrentOp
    <2>2. CASE quoteId' = 0 /\ swapOp' = Nothing
      <3>1. \A u \in fetches : u.id # 0
        BY DEF SwapTypeOK, Fetches
      <3> QED  BY <2>2, <3>1 DEF FetchFirst
    <2> QED  BY <2>1, <2>2
  <1> QED  BY <1>1, <1>2, <1>3 DEF FormInv, QuoteOfForm, BuiltOfForm

\* An edit or a refresh gives out an id that nothing has.
LEMMA QuoteAsked ==
    ASSUME SwapTypeOK, FormInv, NEW f \in Forms \cup {Empty}, NEW keep, NEW reuse, NEW debounced,
           AsksQuote(f, keep, reuse, debounced), ~hasProceeded, ~batchError,
           form' = f, UNCHANGED <<inits, swapOp>>
    PROVE  FormInv'
  <1> DEFINE new == [id |-> issued + 1, step |-> IF debounced THEN "debounce" ELSE "fetching",
                     form |-> f, keep |-> keep, reuse |-> reuse]
  <1>1. /\ issued' = issued + 1 /\ quoteId' = issued + 1
        /\ \/ f = Empty /\ quoteStatus' = "INITIAL" /\ fetches' = fetches
           \/ f # Empty /\ quoteStatus' = "LOADING" /\ fetches' = fetches \cup {new}
    BY DEF AsksQuote
  <1>2. issued \in Nat /\ fetches \subseteq Fetches
    BY DEF SwapTypeOK
  <1>3. /\ \A u \in fetches : u.id \in Nat /\ u.id <= issued
        /\ \A i \in Inits : inits[i] # Nothing => inits[i].id \in Nat /\ inits[i].id <= issued
        /\ swapOp # Nothing => swapOp.id \in Nat /\ swapOp.id <= issued
    BY DEF FormInv, IdsIssued, SwapTypeOK, Fetches, InitCalls, SwapOps
  <1>4. /\ \A u \in fetches : u.id # issued + 1
        /\ \A i \in Inits : inits[i] # Nothing => inits[i].id # issued + 1
        /\ swapOp # Nothing => swapOp.id # issued + 1
    BY <1>2, <1>3
  <1>5. IdsIssued'
    BY <1>1, <1>2, <1>3 DEF IdsIssued
  <1>6. FetchOfForm'
    <2>1. new.id = issued + 1 /\ new.form = f
      OBVIOUS
    <2>2. \A u, v \in fetches' : u.id = v.id => u = v
      BY <1>1, <1>4, <2>1 DEF FormInv, FetchOfForm
    <2>3. \A u \in fetches' : u.id = quoteId' /\ form' # Empty => u.form = form'
      BY <1>1, <1>4, <2>1
    <2>4. quoteStatus' = "LOADING" => \E u \in fetches' : u.id = quoteId'
      BY <1>1, <2>1
    <2> QED  BY <2>2, <2>3, <2>4 DEF FetchOfForm
  <1>7. CurrentOp' = Nothing
    BY <1>1, <1>4 DEF CurrentOp
  <1>8. FetchFirst'
    BY <1>1, <1>4, <1>7 DEF FetchFirst
  <1>9. QuoteOfForm'
    BY <1>1 DEF QuoteOfForm
  <1>10. BuiltOfForm'
    BY <1>1, <1>4, <1>7 DEF BuiltOfForm
  <1> QED  BY <1>5, <1>6, <1>8, <1>9, <1>10 DEF FormInv

\* What is built from the form's quote is of the form.
BuiltFor(x) ==
    \A i \in Inits : x[i] # Nothing =>
        /\ x[i].id <= issued
        /\ x[i].id = quoteId /\ form # Empty => x[i].form = form

LEMMA OpenedOfForm ==
    ASSUME SwapTypeOK, NEW left \in Slots, NEW q, BuiltFor(left), UNCHANGED <<form, quoteId, issued>>,
           \/ inits' = left
           \/ Opened(left, q) /\ (form # Empty => q.form = form)
    PROVE  \A i \in Inits : inits'[i] # Nothing =>
              /\ inits'[i].id <= issued'
              /\ inits'[i].id = quoteId' /\ form' # Empty => inits'[i].form = form'
  <1>1. quoteId <= issued
    BY DEF SwapTypeOK
  <1> QED  BY <1>1 DEF Opened, BuiltFor, Slots

LEMMA UserKeepsFormInv ==
    ASSUME "edit" \notin SwapEnvironment, SwapTypeOK, FormInv, SwapUser \/ RefreshQuote
    PROVE  FormInv'
  <1>1. CASE ReturnToScreen \/ BatchChanges \/ Proceed
    BY <1>1, FormKept DEF ReturnToScreen, BatchChanges, Proceed, formVars
  <1>2. CASE OpenScreen \/ CloseScreen \/ Broadcast \/ SwitchTokens
    <2>1. UNCHANGED formVars \/ (form' = Empty /\ UNCHANGED <<issued, fetches, inits>>
                                 /\ \/ UNCHANGED <<quote, quoteStatus, quoteId, swapOp>>
                                    \/ quoteId' = 0 /\ swapOp' = Nothing /\ quoteStatus' = "INITIAL")
      BY <1>2 DEF OpenScreen, CloseScreen, Broadcast, SwitchTokens, ResetForm, formVars
    <2> QED  BY <2>1, FormKept, FormEmptied
  <1>3. CASE UpdateForm
    <2>1. ~hasProceeded /\ ~batchError /\ UNCHANGED <<inits, swapOp>>
      BY <1>3 DEF UpdateForm
    <2>2. PICK f \in Forms \cup {Empty}, reuse \in BOOLEAN :
             form' = f /\ AsksQuote(f, FALSE, reuse, TRUE)
      BY <1>3 DEF UpdateForm
    <2> QED  BY <2>1, <2>2, QuoteAsked
  <1>4. CASE RefreshQuote
    <2>1. CASE onRoute /\ formStatus = "ReadyToSubmit" /\ ~quote.manual
      <3>1. AsksQuote(form, TRUE, FALSE, FALSE) /\ UNCHANGED <<form, inits, swapOp>>
        BY <1>4, <2>1 DEF RefreshQuote
      <3>2. ~hasProceeded /\ ~batchError
        BY <2>1, StatusSays DEF formStatus, Usable
      <3>3. form \in Forms \cup {Empty} /\ form' = form
        BY <3>1 DEF SwapTypeOK
      <3> QED  BY <3>1, <3>2, <3>3, QuoteAsked
    <2>2. CASE ~(onRoute /\ formStatus = "ReadyToSubmit" /\ ~quote.manual)
      BY <1>4, <2>2, FormKept DEF RefreshQuote, formVars
    <2> QED  BY <2>1, <2>2
  <1>5. CASE SelectRoute
    <2>1. /\ quote # Nothing /\ quote \in Quotes
          /\ UNCHANGED <<form, quoteStatus, quoteId, issued, fetches, swapOp>>
      BY <1>5 DEF SelectRoute, SwapTypeOK
    <2>2. quoteStatus # "LOADING"
      BY <1>5, StatusSays DEF SelectRoute, formStatus, Usable
    <2>3. PICK r \in Routes \ quote.failed :
             /\ quote' = [quote EXCEPT !.selected = r, !.manual = TRUE]
             /\ Starts(quote', quoteStatus, quoteId)
      BY <1>5 DEF SelectRoute
    <2>4. /\ quote' \in Quotes /\ quote'.form = quote.form /\ quote'.failed = quote.failed
          /\ quote.failed # Routes
      BY <2>1, <2>3 DEF Quotes
    <2>5. \A u \in fetches : u.id # quoteId
      BY <2>1, <2>2, <2>4 DEF FormInv, FetchFirst
    <2>6. inits' = inits \/ (Opened(inits, quote') /\ form # Empty)
      BY <2>3, <2>4, StartsBuilding DEF Quotes, Usable
    <2>7. form # Empty => quote'.form = form
      BY <2>1, <2>2, <2>4 DEF FormInv, QuoteOfForm
    <2>8. IdsIssued' /\ BuiltOfForm'
      <3>1. BuiltFor(inits) /\ inits \in Slots
        BY DEF FormInv, IdsIssued, BuiltOfForm, BuiltFor, SwapTypeOK, Slots
      <3>2. \A i \in Inits : inits'[i] # Nothing =>
               /\ inits'[i].id <= issued'
               /\ inits'[i].id = quoteId' /\ form' # Empty => inits'[i].form = form'
        BY <2>1, <2>6, <2>7, <3>1, OpenedOfForm
      <3> QED  BY <2>1, <3>2 DEF FormInv, IdsIssued, BuiltOfForm, CurrentOp
    <2>9. FetchOfForm' /\ FetchFirst'
      BY <2>1, <2>5 DEF FormInv, FetchOfForm, FetchFirst
    <2>10. QuoteOfForm'
      BY <2>1, <2>4, <2>7 DEF QuoteOfForm
    <2> QED  BY <2>8, <2>9, <2>10 DEF FormInv
  <1> QED  BY <1>1, <1>2, <1>3, <1>4, <1>5 DEF SwapUser

LEMMA FetchKeepsFormInv ==
    ASSUME SwapTypeOK, FormInv, NEW u \in fetches, UpdateQuote(u)
    PROVE  FormInv'
  <1>1. u \in Fetches /\ u.id <= issued
    BY DEF SwapTypeOK, FormInv, IdsIssued
  \* After the fetch of the current id nothing is fetched under it.
  <1>2. u.id = quoteId => \A v \in fetches \ {u} : v.id # quoteId
    BY DEF FormInv, FetchOfForm
  <1>3. ASSUME Failed(u), u.id = quoteId PROVE FormInv'
    <2>1. /\ fetches' = fetches \ {u} /\ quote' = Nothing /\ swapOp' = Nothing
          /\ quoteStatus' = "INITIAL"
          /\ UNCHANGED <<form, quoteId, issued, inits>>
      BY <1>3 DEF Failed, Destroyed
    <2> QED
      BY <2>1, <1>2, <1>3
         DEF FormInv, IdsIssued, FetchOfForm, FetchFirst, QuoteOfForm, BuiltOfForm, CurrentOp
  <1>4. ASSUME NEW q, q # Nothing => q.selected \in Routes, Succeeded(u, q), u.id = quoteId,
               form # Empty /\ q # Nothing => q.form = form
        PROVE  FormInv'
    <2>1. /\ fetches' = fetches \ {u} /\ quote' = q /\ Starts(q, "INITIAL", quoteId)
          /\ quoteStatus' = "INITIAL"
          /\ UNCHANGED <<form, quoteId, issued, swapOp>>
      BY <1>4 DEF Succeeded
    <2>2. inits' = inits \/ (Opened(inits, q) /\ q # Nothing)
      BY <1>4, <2>1, StartsBuilding DEF Usable
    <2>3. BuiltFor(inits) /\ inits \in Slots
      BY DEF FormInv, IdsIssued, BuiltOfForm, BuiltFor, SwapTypeOK, Slots
    <2>4. \A i \in Inits : inits'[i] # Nothing =>
             /\ inits'[i].id <= issued'
             /\ inits'[i].id = quoteId' /\ form' # Empty => inits'[i].form = form'
      BY <2>1, <2>2, <2>3, <1>4, OpenedOfForm
    <2>5. IdsIssued' /\ BuiltOfForm'
      BY <2>1, <2>4 DEF FormInv, IdsIssued, BuiltOfForm, CurrentOp
    <2>6. FetchOfForm' /\ FetchFirst'
      BY <2>1, <1>2, <1>4 DEF FormInv, FetchOfForm, FetchFirst
    <2>7. QuoteOfForm'
      BY <2>1, <1>4 DEF QuoteOfForm
    <2> QED  BY <2>5, <2>6, <2>7 DEF FormInv
  <1>5. CASE StopObsolete(u)
    BY <1>5
       DEF StopObsolete, FormInv, IdsIssued, FetchOfForm, FetchFirst, QuoteOfForm, BuiltOfForm,
           CurrentOp
  <1>6. CASE BeginFetch(u)
    <2>1. CASE form = Empty
      BY <1>3, <1>6, <2>1 DEF BeginFetch
    <2>2. CASE form # Empty /\ u.reuse /\ quote # Nothing /\ quote.form = form
      <3>1. Succeeded(u, quote) /\ u.id = quoteId
        BY <1>6, <2>2 DEF BeginFetch
      <3>2. quote.selected \in Routes
        BY <2>2 DEF SwapTypeOK, Quotes
      <3> QED  BY <3>1, <3>2, <2>2, <1>4
    <2>3. CASE form # Empty /\ ~(u.reuse /\ quote # Nothing /\ quote.form = form)
      <3> DEFINE v == [u EXCEPT !.step = "fetching", !.form = form]
      <3>1. /\ fetches' = (fetches \ {u}) \cup {v}
            /\ quote' = IF u.keep THEN quote ELSE Nothing
            /\ quoteStatus' = IF u.keep \/ quote = Nothing THEN quoteStatus ELSE "LOADING"
            /\ UNCHANGED <<form, quoteId, issued, inits, swapOp>>
            /\ u.id = quoteId
        BY <1>6, <2>3 DEF BeginFetch
      <3>2. v.id = u.id /\ v.form = form
        BY <1>1 DEF Fetches
      <3>3. IdsIssued'
        BY <3>1, <3>2, <1>1 DEF FormInv, IdsIssued
      <3>4. FetchOfForm'
        BY <3>1, <3>2, <1>2 DEF FormInv, FetchOfForm
      <3>5. FetchFirst'
        <4>1. /\ \A i \in Inits : inits[i] # Nothing => inits[i].id # quoteId
              /\ CurrentOp = Nothing
              /\ quoteStatus = "LOADING" \/ quote = Nothing \/ quote.failed = Routes
          BY <3>1 DEF FormInv, FetchFirst
        <4> QED  BY <3>1, <4>1 DEF FetchFirst, CurrentOp
      <3>6. QuoteOfForm' /\ BuiltOfForm'
        BY <3>1 DEF FormInv, QuoteOfForm, BuiltOfForm, CurrentOp
      <3> QED  BY <3>3, <3>4, <3>5, <3>6 DEF FormInv
    <2> QED  BY <2>1, <2>2, <2>3
  <1>7. CASE QuoteAnswered(u)
    <2>1. CASE Failed(u)
      BY <1>3, <1>7, <2>1 DEF QuoteAnswered
    <2>2. CASE form = u.form /\ \E r \in Routes : Succeeded(u, [form |-> form, selected |-> r,
                                                  failed |-> {}, manual |-> FALSE])
      BY <1>4, <1>7, <2>2 DEF QuoteAnswered
    <2>3. CASE form # u.form /\ Succeeded(u, quote)
      <3>1. form = Empty
        BY <1>7, <2>3 DEF QuoteAnswered, FormInv, FetchOfForm
      <3>2. quote # Nothing => quote.selected \in Routes
        BY DEF SwapTypeOK, Quotes
      <3> QED  BY <1>4, <1>7, <2>3, <3>1, <3>2 DEF QuoteAnswered
    <2> QED  BY <1>7, <2>1, <2>2, <2>3 DEF QuoteAnswered
  <1> QED  BY <1>5, <1>6, <1>7 DEF UpdateQuote

\* A route that fails, of an op that may be an earlier one.
LEMMA RouteFailureKeepsFormInv ==
    ASSUME SwapTypeOK, FormInv, NEW left \in Slots, BuiltFor(left), NEW phase,
           FailsRoute(left, phase), UNCHANGED <<form, quoteId, issued, fetches>>,
           \A i \in Inits : left[i] = inits[i] \/ left[i] = Nothing,
           phase = quoteStatus \/ (phase = "INITIAL" /\ \A u \in fetches : u.id # quoteId),
           swapOp' = swapOp \/ (swapOp # Nothing /\ swapOp'.id = swapOp.id
                                /\ swapOp'.form = swapOp.form)
    PROVE  FormInv'
  <1>1. \/ inits' = left /\ quote' = Nothing /\ quote = Nothing /\ quoteStatus' = quoteStatus
        \/ /\ quote # Nothing /\ quote' \in Quotes /\ quote'.form = quote.form
           /\ quote.failed \subseteq quote'.failed
           /\ \/ quoteStatus' = quoteStatus
              \/ quoteStatus' = phase
              \/ quoteStatus' = "INITIAL" /\ quote'.failed = Routes
           /\ \/ inits' = left
              \/ /\ Opened(left, quote) /\ Usable(quote, quoteStatus)
                 /\ quote'.failed # Routes /\ quoteStatus' = quoteStatus
    BY RouteFails DEF SwapTypeOK
  <1>2. quote # Nothing => quote.failed \subseteq Routes
    BY DEF SwapTypeOK, Quotes
  <1>3. quote' # Nothing => quote # Nothing /\ quote'.failed \subseteq Routes
    BY <1>1 DEF Quotes
  <1>8. inits' # left =>
           Opened(left, quote) /\ Usable(quote, quoteStatus) /\ quote.failed # Routes
    <2> SUFFICES ASSUME inits' # left
                 PROVE  Opened(left, quote) /\ Usable(quote, quoteStatus) /\ quote.failed # Routes
      OBVIOUS
    <2>1. Opened(left, quote) /\ Usable(quote, quoteStatus) /\ quote'.failed # Routes
      BY <1>1
    <2>2. quote' \in Quotes /\ quote.failed \subseteq quote'.failed
      BY <1>1
    <2>3. quote'.failed \subseteq Routes
      BY <2>2 DEF Quotes
    <2>4. quote.failed # Routes
      BY <2>1, <2>2, <2>3
    <2> QED  BY <2>1, <2>4
  <1>4. IdsIssued' /\ BuiltOfForm'
    <2>1. inits' = left \/ (Opened(left, quote) /\ (form # Empty => quote.form = form))
      BY <1>8 DEF Usable, FormInv, QuoteOfForm
    <2>2. \A i \in Inits : inits'[i] # Nothing =>
             /\ inits'[i].id <= issued'
             /\ inits'[i].id = quoteId' /\ form' # Empty => inits'[i].form = form'
      BY <2>1, OpenedOfForm
    <2> QED  BY <2>2 DEF FormInv, IdsIssued, BuiltOfForm, CurrentOp
  <1>5. FetchOfForm'
    <2>1. quoteStatus' = "LOADING" => quoteStatus = "LOADING"
      BY <1>1
    <2> QED  BY <2>1 DEF FormInv, FetchOfForm
  <1>6. FetchFirst'
    <2> SUFFICES ASSUME NEW u \in fetches, u.id = quoteId
                 PROVE  /\ \A i \in Inits : inits'[i] # Nothing => inits'[i].id # quoteId
                        /\ CurrentOp' = Nothing
                        /\ quoteStatus' = "LOADING" \/ quote' = Nothing \/ quote'.failed = Routes
      BY DEF FetchFirst
    <2>1. /\ \A i \in Inits : inits[i] # Nothing => inits[i].id # quoteId
          /\ CurrentOp = Nothing
          /\ quoteStatus = "LOADING" \/ quote = Nothing \/ quote.failed = Routes
      BY DEF FormInv, FetchFirst
    <2>2. phase = quoteStatus
      OBVIOUS
    <2>3. inits' = left
      BY <1>8, <2>1 DEF Usable
    <2>4. CurrentOp' = Nothing
      BY <2>1 DEF CurrentOp
    <2>5. quoteStatus' = "LOADING" \/ quote' = Nothing \/ quote'.failed = Routes
      BY <1>1, <1>3, <2>1, <2>2
    <2> QED  BY <2>1, <2>3, <2>4, <2>5
  <1>7. QuoteOfForm'
    <2> SUFFICES ASSUME form # Empty, quote' # Nothing, quoteStatus' # "LOADING",
                        quote'.failed # Routes
                 PROVE  quote'.form = form
      BY DEF QuoteOfForm
    <2>1. quote # Nothing /\ quote'.form = quote.form /\ quote.failed # Routes
      BY <1>1, <1>3
    <2>2. quoteStatus # "LOADING"
      BY <1>1, <2>1 DEF FormInv, FetchOfForm
    <2> QED  BY <2>1, <2>2 DEF FormInv, QuoteOfForm
  <1> QED  BY <1>4, <1>5, <1>6, <1>7 DEF FormInv

\* Another step of a building or of the op.
LEMMA BuildingKeepsFormInv ==
    ASSUME SwapTypeOK, FormInv, UNCHANGED <<form, quote, quoteId, issued, fetches>>,
           quoteStatus' = quoteStatus \/ (quoteStatus' = "INITIAL" /\ \A u \in fetches : u.id # quoteId),
           \A i \in Inits : inits'[i] # Nothing =>
              /\ inits[i] # Nothing /\ inits'[i].id = inits[i].id
              /\ inits'[i].form = inits[i].form \/ (form # Empty => inits'[i].form = form),
           swapOp' # Nothing =>
              \/ swapOp # Nothing /\ swapOp'.id = swapOp.id /\ swapOp'.form = swapOp.form
              \/ \E i \in Inits : inits[i] # Nothing /\ swapOp'.id = inits[i].id
                                  /\ swapOp'.form = inits[i].form
    PROVE  FormInv'
  <1>1. IdsIssued'
    BY DEF FormInv, IdsIssued
  <1>2. FetchOfForm'
    BY DEF FormInv, FetchOfForm
  <1>3. FetchFirst'
    BY DEF FormInv, FetchFirst, CurrentOp
  <1>4. QuoteOfForm'
    <2>1. quoteStatus = "LOADING" => \E u \in fetches : u.id = quoteId
      BY DEF FormInv, FetchOfForm
    <2> QED  BY <2>1 DEF FormInv, QuoteOfForm
  <1>5. BuiltOfForm'
    BY DEF FormInv, BuiltOfForm, CurrentOp
  <1> QED  BY <1>1, <1>2, <1>3, <1>4, <1>5 DEF FormInv

LEMMA OpKeepsFormInv ==
    ASSUME SwapTypeOK, FormInv, \/ Estimated
                                \/ \E i \in Inits : BuildOp(i)
    PROVE  FormInv'
  <1>0. BuiltFor(inits) /\ inits \in Slots /\ inits \in [Inits -> InitCalls \cup {Nothing}]
    BY DEF FormInv, IdsIssued, BuiltOfForm, BuiltFor, SwapTypeOK, Slots
  <1>1. ASSUME NEW i \in Inits PROVE BuiltFor(Dropped(i)) /\ Dropped(i) \in Slots
    BY <1>0, DroppedTyped DEF BuiltFor, Dropped, Slots
  <1>2. ASSUME NEW i \in Inits
        PROVE  \A j \in Inits : /\ Dropped(i)[j] = inits[j] \/ Dropped(i)[j] = Nothing
                                /\ Dropped(i)[j] # Nothing => Dropped(i)[j] = inits[j]
    BY <1>0 DEF Dropped
  \* While something is built for the current id, nothing is fetched under it.
  <1>3. ASSUME NEW i \in Inits, inits[i] # Nothing, inits[i].id = quoteId
        PROVE  \A u \in fetches : u.id # quoteId
    BY <1>3 DEF FormInv, FetchFirst
  <1>4. ASSUME NEW i \in Inits, FailsRoute(Dropped(i), "INITIAL"), KeepsForm, swapOp' = swapOp,
               inits[i] # Nothing, inits[i].id = quoteId
        PROVE  FormInv'
    BY <1>1, <1>2, <1>3, <1>4, RouteFailureKeepsFormInv DEF KeepsForm
  <1>5. ASSUME NEW i \in Inits, InitObsolete(i) PROVE FormInv'
    BY <1>2, <1>5, BuildingKeepsFormInv DEF InitObsolete, KeepsForm
  <1>6. ASSUME NEW i \in Inits, InitState(i) PROVE FormInv'
    <2>1. /\ inits[i] # Nothing /\ inits[i].id = quoteId /\ swapOp' = swapOp /\ KeepsForm
      BY <1>6 DEF InitState
    <2>2. CASE inits' = Dropped(i) /\ quoteStatus' = "INITIAL" /\ quote' = quote
      BY <1>2, <1>3, <2>1, <2>2, BuildingKeepsFormInv DEF KeepsForm
    <2>3. CASE /\ formStatus \in {"ReadyToEstimate", "ReadyToSubmit"}
               /\ inits' = [inits EXCEPT ![i].step = "start", ![i].form = quote.form,
                                         ![i].route = quote.selected]
               /\ UNCHANGED <<quote, quoteStatus>>
      <3>1. form # Empty /\ quoteStatus # "LOADING" /\ quote # Nothing /\ quote \in Quotes
            /\ quote.selected \notin quote.failed
        BY <2>3, StatusSays DEF formStatus, Usable, SwapTypeOK
      <3>2. quote.form = form
        BY <3>1 DEF FormInv, QuoteOfForm, Usable, Quotes, SwapTypeOK
      <3>3. inits[i] \in InitCalls
        BY <1>0, <2>1
      <3> DEFINE new == [inits[i] EXCEPT !.step = "start", !.form = quote.form,
                                         !.route = quote.selected]
      <3>4. new # Nothing => new.id = inits[i].id /\ new.form = form
        BY <3>2, <3>3 DEF InitCalls
      <3>5. inits' = [inits EXCEPT ![i] = new]
        BY <1>0, <2>3
      <3>6. \A j \in Inits : inits'[j] # Nothing =>
               /\ inits[j] # Nothing /\ inits'[j].id = inits[j].id
               /\ inits'[j].form = inits[j].form \/ (form # Empty => inits'[j].form = form)
        BY <1>0, <2>1, <3>4, <3>5
      <3> QED  BY <2>1, <2>3, <3>6, BuildingKeepsFormInv DEF KeepsForm
    <2>4. CASE FailsRoute(Dropped(i), "INITIAL")
      BY <1>4, <2>1, <2>4
    <2> QED  BY <1>6, <2>2, <2>3, <2>4 DEF InitState
  <1>7. ASSUME NEW i \in Inits, RouteStarted(i) PROVE FormInv'
    <2>1. /\ inits[i] # Nothing /\ inits[i].id = quoteId /\ swapOp' = swapOp /\ KeepsForm
      BY <1>7 DEF RouteStarted
    <2>2. CASE FailsRoute(Dropped(i), "INITIAL")
      BY <1>4, <2>1, <2>2
    <2>3. CASE /\ quote # Nothing
               /\ inits' = [inits EXCEPT ![i].step = "calls", ![i].name = quote.selected]
               /\ UNCHANGED <<quote, quoteStatus>>
      <3>1. inits[i] \in InitCalls
        BY <1>0, <2>1
      <3> DEFINE new == [inits[i] EXCEPT !.step = "calls", !.name = quote.selected]
      <3>2. new.id = inits[i].id /\ new.form = inits[i].form
        BY <3>1 DEF InitCalls
      <3>3. inits' = [inits EXCEPT ![i] = new]
        BY <1>0, <2>3
      <3>4. \A j \in Inits : inits'[j] # Nothing =>
               inits[j] # Nothing /\ inits'[j].id = inits[j].id /\ inits'[j].form = inits[j].form
        BY <1>0, <2>1, <3>2, <3>3
      <3> QED  BY <2>1, <2>3, <3>4, BuildingKeepsFormInv DEF KeepsForm
    <2> QED  BY <1>7, <2>2, <2>3 DEF RouteStarted
  <1>8. ASSUME NEW i \in Inits, OpBuilt(i) PROVE FormInv'
    <2>1. /\ inits[i] # Nothing /\ inits' = Dropped(i) /\ KeepsForm
          /\ swapOp'.id = inits[i].id /\ swapOp'.form = inits[i].form
          /\ UNCHANGED <<quote, quoteStatus>>
      BY <1>8 DEF OpBuilt
    <2> QED  BY <1>2, <2>1, BuildingKeepsFormInv DEF KeepsForm
  <1>9. CASE Estimated
    <2>1. /\ swapOp # Nothing /\ KeepsForm
          /\ swapOp'.id = swapOp.id /\ swapOp'.form = swapOp.form
      <3>1. swapOp \in SwapOps
        BY <1>9 DEF Estimated, SwapTypeOK
      <3> QED  BY <1>9, <3>1 DEF Estimated, SwapOps
    <2>2. CASE UNCHANGED <<quote, quoteStatus, inits>>
      BY <2>1, <2>2, BuildingKeepsFormInv DEF KeepsForm
    <2>3. CASE FailsRoute(inits, quoteStatus)
      BY <1>0, <2>1, <2>3, RouteFailureKeepsFormInv DEF KeepsForm
    <2> QED  BY <1>9, <2>2, <2>3 DEF Estimated
  <1> QED  BY <1>5, <1>6, <1>7, <1>8, <1>9 DEF BuildOp

LEMMA NextFormInv ==
    ASSUME "edit" \notin SwapEnvironment, SwapTypeOK, FormInv, [SwapNext]_swapVars
    PROVE  FormInv'
  <1>1. CASE UNCHANGED swapVars
    BY <1>1, FormKept DEF swapVars, formVars
  <1> QED  BY <1>1, UserKeepsFormInv, FetchKeepsFormInv, OpKeepsFormInv DEF SwapNext

\* The inductive invariant holds in every reachable state.
THEOREM FormInvariance ==
    ASSUME "edit" \notin SwapEnvironment PROVE SwapSpec => [](SwapTypeOK /\ FormInv)
  <1>1. SwapInit => SwapTypeOK /\ FormInv
    BY InitSwapTyped, InitFormInv
  <1>2. SwapTypeOK /\ FormInv /\ [SwapNext]_swapVars => (SwapTypeOK /\ FormInv)'
    BY NextSwapTyped, NextFormInv
  <1> QED  BY <1>1, <1>2, PTL DEF SwapSpec

\* What the form offers to sign is the swap it shows, however many quotes,
\* route starts and estimations come back late, and whatever routes fail or
\* are selected meanwhile (formStatus, signAccountOpController, updateQuote),
\* provided the form is not edited while the pending batch has an error.
THEOREM SubmitMatchesFormHolds ==
    ASSUME "edit" \notin SwapEnvironment PROVE SwapSpec => []SubmitMatchesForm
  <1>1. SwapTypeOK /\ FormInv => SubmitMatchesForm
    <2> SUFFICES ASSUME SwapTypeOK, FormInv, formStatus = "ReadyToSubmit"
                 PROVE  quote.form = form /\ CurrentOp.form = form
      BY DEF SubmitMatchesForm
    <2>1. Usable(quote, quoteStatus) /\ quote.selected \notin quote.failed /\ CurrentOp # Nothing
      BY StatusSays DEF formStatus
    <2>2. quote.failed # Routes
      BY <2>1 DEF Usable, SwapTypeOK, Quotes
    <2> QED  BY <2>1, <2>2 DEF Usable, FormInv, QuoteOfForm, BuiltOfForm
  <1> QED  BY <1>1, FormInvariance, PTL

-----------------------------------------------------------------------------
(* What the user went on to sign is left alone.                            *)

LEMMA NothingStarts ==
    ASSUME hasProceeded, NEW q, NEW phase, NEW id, Starts(q, phase, id)
    PROVE  inits' = inits
  <1>1. StatusOf(form, q, phase, CurrentOp) = "Proceeded"
    BY DEF StatusOf
  <1> QED  BY <1>1 DEF Starts

LEMMA NothingRestarts ==
    ASSUME hasProceeded, NEW left, NEW phase, quote \in Quotes \cup {Nothing},
           FailsRoute(left, phase)
    PROVE  inits' = left
  BY RouteFails DEF Usable

LEMMA NextProceededQuietly ==
    ASSUME "reselect" \notin SwapEnvironment, SwapTypeOK, ProceededQuietly, [SwapNext]_swapVars
    PROVE  ProceededQuietly'
  <1> SUFFICES ASSUME hasProceeded' PROVE Quiescent'
    BY DEF ProceededQuietly
  <1>1. CASE ~hasProceeded
    <2>1. Proceed
      BY <1>1
         DEF SwapNext, SwapUser, OpenScreen, CloseScreen, ReturnToScreen, UpdateForm, SwitchTokens,
             BatchChanges, SelectRoute, Broadcast, ResetForm, RefreshQuote, Estimated, UpdateQuote,
             StopObsolete, BeginFetch, QuoteAnswered, Failed, Succeeded, Destroyed, BuildOp,
             InitObsolete, InitState, RouteStarted, OpBuilt, swapVars, SwapTypeOK
    <2> QED  BY <1>1, <2>1 DEF Proceed, MayReselect, Quiescent
  <1>2. CASE hasProceeded
    <2>1. \A i \in Inits : inits[i] = Nothing
      BY <1>2 DEF ProceededQuietly, Quiescent
    <2>2. quote \in Quotes \cup {Nothing}
      BY DEF SwapTypeOK
    <2>3. inits' = inits
      <3>1. CASE SwapUser
        BY <1>2, <3>1, NothingStarts
           DEF SwapUser, OpenScreen, CloseScreen, ReturnToScreen, UpdateForm, SwitchTokens,
               BatchChanges, SelectRoute, Proceed, Broadcast
      <3>2. CASE RefreshQuote
        BY <3>2 DEF RefreshQuote
      <3>3. CASE Estimated
        BY <1>2, <2>2, <3>3, NothingRestarts DEF Estimated
      <3>4. ASSUME NEW u \in fetches, UpdateQuote(u) PROVE inits' = inits
        <4>1. \/ inits' = inits
              \/ \E q : Starts(q, "INITIAL", u.id)
          BY <3>4 DEF UpdateQuote, StopObsolete, BeginFetch, QuoteAnswered, Failed, Succeeded
        <4> QED  BY <1>2, <4>1, NothingStarts
      <3>5. ASSUME NEW i \in Inits, BuildOp(i) PROVE inits' = inits
        BY <2>1, <3>5 DEF BuildOp, InitObsolete, InitState, RouteStarted, OpBuilt
      <3>6. CASE UNCHANGED swapVars
        BY <3>6 DEF swapVars
      <3> QED  BY <3>1, <3>2, <3>3, <3>4, <3>5, <3>6 DEF SwapNext
    <2> QED  BY <2>1, <2>3 DEF Quiescent
  <1> QED  BY <1>1, <1>2

\* The op of who proceeded is replaced only by a building, and dropped only
\* together with the proceeding.
LEMMA CommittedStep ==
    ASSUME SwapTypeOK, ProceededQuietly, [SwapNext]_swapVars,
           hasProceeded, hasProceeded', CurrentOp # Nothing
    PROVE  swapOp'.route = swapOp.route /\ swapOp'.form = swapOp.form
  <1>1. swapOp # Nothing /\ swapOp \in SwapOps
    BY DEF CurrentOp, SwapTypeOK
  <1>2. \A i \in Inits : inits[i] = Nothing
    BY DEF ProceededQuietly, Quiescent
  <1>3. CASE SwapUser
    BY <1>3 DEF SwapUser, OpenScreen, CloseScreen, ReturnToScreen, UpdateForm, SwitchTokens,
                BatchChanges, SelectRoute, Proceed, Broadcast, ResetForm
  <1>4. CASE RefreshQuote
    BY <1>4 DEF RefreshQuote
  <1>5. CASE Estimated
    BY <1>1, <1>5 DEF Estimated, SwapOps
  <1>6. ASSUME NEW u \in fetches, UpdateQuote(u)
        PROVE  swapOp'.route = swapOp.route /\ swapOp'.form = swapOp.form
    <2>1. swapOp' = swapOp \/ Destroyed
      BY <1>6 DEF UpdateQuote, StopObsolete, BeginFetch, QuoteAnswered, Failed, Succeeded
    <2> QED  BY <1>1, <2>1 DEF Destroyed
  <1>7. ASSUME NEW i \in Inits, BuildOp(i) PROVE FALSE
    BY <1>2, <1>7 DEF BuildOp, InitObsolete, InitState, RouteStarted, OpBuilt
  <1>8. CASE UNCHANGED swapVars
    BY <1>8 DEF swapVars
  <1> QED  BY <1>3, <1>4, <1>5, <1>6, <1>7, <1>8 DEF SwapNext

\* Who proceeded did so when nothing was being built.
THEOREM ProceededInvariance ==
    ASSUME "reselect" \notin SwapEnvironment
    PROVE  SwapSpec => [](SwapTypeOK /\ ProceededQuietly)
  <1>1. SwapInit => SwapTypeOK /\ ProceededQuietly
    BY InitSwapTyped DEF SwapInit, ProceededQuietly
  <1>2. SwapTypeOK /\ ProceededQuietly /\ [SwapNext]_swapVars => (SwapTypeOK /\ ProceededQuietly)'
    BY NextSwapTyped, NextProceededQuietly
  <1> QED  BY <1>1, <1>2, PTL DEF SwapSpec

\* An op the user went on to sign stays what it was, whatever is fetched,
\* refused or estimated meanwhile ("no updates if the user has commited"),
\* provided no route is selected while another one is being started.
THEOREM CommittedOpKeptHolds ==
    ASSUME "reselect" \notin SwapEnvironment PROVE SwapSpec => CommittedOpKept
  <1>1. SwapTypeOK /\ ProceededQuietly /\ [SwapNext]_swapVars =>
          [hasProceeded /\ hasProceeded' /\ CurrentOp # Nothing => swapOp'.route = swapOp.route
                                                /\ swapOp'.form = swapOp.form]_swapVars
    BY CommittedStep
  <1> QED  BY <1>1, ProceededInvariance, PTL DEF SwapSpec, CommittedOpKept

-----------------------------------------------------------------------------
(* The receive side keeps its types: what is selected was listed, or known *)
(* when it was asked for.                                                  *)

TokenOf == Tokens \cup {NoToken}
Loads == [step : {"none", "list", "token", "form"}, select : Addresses \cup {NoToken}]

LEMMA SelectFromTyped ==
    ASSUME TokensTypeOK, NEW k \in Pairs, NEW now \in Pairs,
           NEW select \in Addresses \cup {NoToken}, NEW token \in TokenOf,
           NEW tokens \in SUBSET Addresses, SelectFrom(k, now, select, token, tokens)
    PROVE  toToken' \in TokenOf /\ loads' \in [Pairs -> Loads]
  <1>1. loads \in [Pairs -> Loads]
    BY DEF TokensTypeOK, Loads
  <1>2. NoLoad \in Loads /\ [step |-> "form", select |-> NoToken] \in Loads
        /\ [step |-> "token", select |-> select] \in Loads
    BY DEF NoLoad, Loads
  <1>3. now[2] \in Chains
    BY DEF Pairs
  <1>4. select \in tokens => [chain |-> now[2], address |-> select] \in TokenOf
    BY <1>3 DEF TokenOf, Tokens
  <1> QED  BY <1>1, <1>2, <1>4 DEF SelectFrom

LEMMA UpdateToTokenListTyped ==
    ASSUME TokensTypeOK, NEW k \in Pairs, NEW shouldReset \in BOOLEAN,
           NEW select \in Addresses \cup {NoToken}, NEW token \in TokenOf,
           UpdateToTokenList(k, shouldReset, select, token)
    PROVE  toToken' \in TokenOf /\ loads' \in [Pairs -> Loads] /\ emptied' \subseteq Pairs
  <1> DEFINE kept == IF shouldReset THEN NoToken ELSE token
  <1>1. loads \in [Pairs -> Loads] /\ emptied \subseteq Pairs /\ lists[k] \in SUBSET Addresses
    BY DEF TokensTypeOK, Loads
  <1>2. kept \in TokenOf
    BY DEF TokenOf
  <1>3. \/ UNCHANGED <<loads, emptied>> /\ toToken' = token
        \/ emptied' = emptied \ {k} /\ SelectFrom(k, k, select, kept, lists[k])
        \/ /\ loads' = [loads EXCEPT ![k] = [step |-> "list", select |-> select]]
           /\ toToken' = kept /\ UNCHANGED emptied
    BY DEF UpdateToTokenList
  <1> HIDE DEF kept
  <1>4. [step |-> "list", select |-> select] \in Loads
    BY DEF Loads
  <1>5. CASE emptied' = emptied \ {k} /\ SelectFrom(k, k, select, kept, lists[k])
    BY <1>1, <1>2, <1>5, SelectFromTyped
  <1> QED  BY <1>1, <1>2, <1>3, <1>4, <1>5

LEMMA UpdateTokensTyped ==
    ASSUME TokensTypeOK, NEW from \in Chains, NEW to \in Chains,
           NEW wish \in Addresses \cup {NoToken}, NEW pre \in TokenOf,
           UpdateTokens(from, to, wish, pre), lists' = lists, picks' \in 0..MaxPicks
    PROVE  TokensTypeOK'
  <1> DEFINE k == <<from, to>>
             found == wish \in Shown(k)
             token == IF found THEN [chain |-> to, address |-> wish] ELSE toToken
             restore == IF pre # NoToken /\ pre.chain = to THEN pre.address ELSE NoToken
             select == IF wish # NoToken THEN wish ELSE restore
             changed == k # currentPair
  <1>1. k \in Pairs /\ toToken \in TokenOf
    BY DEF Pairs, TokensTypeOK, TokenOf
  <1>2. Shown(k) \subseteq Addresses
    BY <1>1 DEF TokensTypeOK, Shown
  <1>3. token \in TokenOf
    BY <1>1, <1>2 DEF TokenOf, Tokens
  <1>4. select \in Addresses \cup {NoToken}
    BY DEF TokenOf, Tokens
  <1>5. /\ fromChain' = from /\ toChain' = to /\ preselected' = pre
        /\ \/ UpdateToTokenList(k, changed, select, token)
           \/ UNCHANGED <<loads, emptied>> /\ toToken' = token
    BY DEF UpdateTokens
  <1>c. changed \in BOOLEAN
    OBVIOUS
  <1> HIDE DEF k, token, select, changed
  <1>6. toToken' \in TokenOf /\ loads' \in [Pairs -> Loads] /\ emptied' \subseteq Pairs
    <2>1. CASE UpdateToTokenList(k, changed, select, token)
      BY <1>1, <1>3, <1>4, <1>c, <2>1, UpdateToTokenListTyped
    <2>2. CASE UNCHANGED <<loads, emptied>> /\ toToken' = token
      BY <1>3, <2>2 DEF TokensTypeOK, Loads
    <2> QED  BY <1>5, <2>1, <2>2
  <1> QED  BY <1>5, <1>6 DEF TokensTypeOK, TokenOf, Loads

LEMMA UserPicksTyped ==
    ASSUME TokensTypeOK, UserPicks, picks' \in 0..MaxPicks
    PROVE  TokensTypeOK'
  <1>0. fromChain \in Chains /\ toChain \in Chains /\ toToken \in TokenOf
        /\ preselected \in TokenOf /\ NoToken \in TokenOf
    BY DEF TokensTypeOK, TokenOf
  <1>1. CASE ResetTokens
    BY <1>1, TokensAssumption DEF ResetTokens, TokensTypeOK, currentPair, Pairs
  <1>2. ASSUME NEW c \in Chains, PickToChain(c) PROVE TokensTypeOK'
    BY <1>0, <1>2, UpdateTokensTyped DEF PickToChain
  <1>3. ASSUME NEW c \in Chains, FromTokenChanges(c) PROVE TokensTypeOK'
    <2>1. PICK to \in Chains : UpdateTokens(c, to, NoToken, preselected)
      BY <1>0, <1>3 DEF FromTokenChanges
    <2> QED  BY <1>0, <1>3, <2>1, UpdateTokensTyped DEF FromTokenChanges
  <1>4. ASSUME NEW a \in Addresses, PickToToken(a) PROVE TokensTypeOK'
    BY <1>0, <1>4, UpdateTokensTyped DEF PickToToken
  <1>5. ASSUME NEW a \in Addresses, SwitchSides(a) PROVE TokensTypeOK'
    <2> DEFINE k == <<toChain, fromChain>>
    <2>1. k \in Pairs
      BY <1>0 DEF Pairs
    <2>2. UpdateToTokenList(k, TRUE, a, toToken)
      BY <1>5 DEF SwitchSides
    <2> HIDE DEF k
    <2>3. toToken' \in TokenOf /\ loads' \in [Pairs -> Loads] /\ emptied' \subseteq Pairs
      BY <1>0, <2>1, <2>2, UpdateToTokenListTyped
    <2> QED  BY <1>0, <1>5, <2>3 DEF SwitchSides, TokensTypeOK, TokenOf, Loads
  <1>6. ASSUME NEW c \in Chains, NEW a \in Addresses, InitWithToken(c, a) PROVE TokensTypeOK'
    <2> DEFINE pre == [chain |-> c, address |-> a]
    <2>1. pre \in TokenOf
      BY DEF TokenOf, Tokens
    <2>2. UpdateTokens(fromChain, c, a, pre) /\ lists' = lists
      BY <1>6 DEF InitWithToken
    <2> HIDE DEF pre
    <2> QED  BY <1>0, <2>1, <2>2, UpdateTokensTyped
  <1>7. ASSUME NEW a \in Addresses, NEW k \in Pairs, TokenAddedByAddress(k, a) PROVE TokensTypeOK'
    <2>1. lists' \in [Pairs -> SUBSET Addresses]
      BY <1>7 DEF TokenAddedByAddress, TokensTypeOK
    <2> QED  BY <1>7, <2>1 DEF TokenAddedByAddress, TokensTypeOK
  <1> QED  BY <1>1, <1>2, <1>3, <1>4, <1>5, <1>6, <1>7 DEF UserPicks

LEMMA ProviderAnswersTyped ==
    ASSUME TokensTypeOK, ProviderAnswers, picks' = picks
    PROVE  TokensTypeOK'
  <1>0. currentPair \in Pairs /\ toToken \in TokenOf /\ loads \in [Pairs -> Loads]
    BY DEF TokensTypeOK, TokenOf, Loads, currentPair, Pairs
  <1>k. \A c \in Chains : Listed[c] \subseteq Addresses /\ Known[c] \subseteq Addresses
    BY TokensAssumption
  <1>1. ASSUME NEW k \in Pairs, NEW ok \in BOOLEAN, ListAnswered(k, ok) PROVE TokensTypeOK'
    <2> DEFINE tokens == IF ok THEN Listed[k[2]] ELSE lists[k]
    <2>1. k[2] \in Chains
      BY DEF Pairs
    <2>2. tokens \in SUBSET Addresses
      BY <1>k, <2>1 DEF TokensTypeOK
    <2>3. loads[k].select \in Addresses \cup {NoToken}
      BY <1>0 DEF Loads
    <2>4. /\ lists' = [lists EXCEPT ![k] = tokens] /\ emptied' = emptied \ {k}
          /\ SelectFrom(k, currentPair, loads[k].select, toToken, tokens)
          /\ UNCHANGED <<fromChain, toChain, preselected>>
      BY <1>1 DEF ListAnswered
    <2> HIDE DEF tokens
    <2>5. toToken' \in TokenOf /\ loads' \in [Pairs -> Loads]
      BY <1>0, <2>2, <2>3, <2>4, SelectFromTyped
    <2> QED  BY <2>2, <2>4, <2>5 DEF TokensTypeOK, TokenOf, Loads
  <1>2. ASSUME NEW k \in Pairs, TokenAnswered(k) PROVE TokensTypeOK'
    <2> DEFINE a == loads[k].select
               found == a \in Shown(currentPair) \/ k = currentPair
    <2>1. a \in Addresses
      BY <1>2, <1>k DEF TokenAnswered, Pairs
    <2>2. lists' \in [Pairs -> SUBSET Addresses]
      BY <1>2, <2>1 DEF TokenAnswered, TokensTypeOK
    <2>3. toToken' \in TokenOf
      BY <1>0, <1>2, <2>1 DEF TokenAnswered, TokensTypeOK, TokenOf, Tokens
    <2>4. loads' \in [Pairs -> Loads]
      <3>1. [step |-> "form", select |-> NoToken] \in Loads /\ [step |-> "list", select |-> a] \in Loads
        BY <2>1 DEF Loads
      <3> QED  BY <1>0, <1>2, <3>1 DEF TokenAnswered
    <2> QED  BY <1>2, <2>2, <2>3, <2>4 DEF TokenAnswered, TokensTypeOK, TokenOf, Loads
  <1>3. ASSUME NEW k \in Pairs, LoadEnds(k) PROVE TokensTypeOK'
    <2>1. NoLoad \in Loads
      BY DEF NoLoad, Loads
    <2>2. loads' \in [Pairs -> Loads]
      BY <1>0, <1>3, <2>1 DEF LoadEnds
    <2> QED  BY <1>3, <2>2 DEF LoadEnds, TokensTypeOK, Loads
  <1> QED  BY <1>1, <1>2, <1>3 DEF ProviderAnswers

LEMMA InitTokensTyped == TokensInit => TokensTypeOK
  BY TokensAssumption DEF TokensInit, TokensTypeOK, NoLoad

LEMMA NextTokensTyped == TokensTypeOK /\ [TokensNext]_tokenVars => TokensTypeOK'
  <1> SUFFICES ASSUME TokensTypeOK, [TokensNext]_tokenVars PROVE TokensTypeOK'
    OBVIOUS
  <1>1. CASE UserPicks /\ picks < MaxPicks /\ picks' = picks + 1
    <2>1. picks' \in 0..MaxPicks
      BY <1>1, TokensAssumption DEF TokensTypeOK
    <2> QED  BY <1>1, <2>1, UserPicksTyped
  <1>2. CASE ProviderAnswers /\ UNCHANGED picks
    BY <1>2, ProviderAnswersTyped
  <1>3. CASE UNCHANGED tokenVars
    BY <1>3 DEF tokenVars, TokensTypeOK
  <1> QED  BY <1>1, <1>2, <1>3 DEF TokensNext

\* The token lists, their fetches and the tokens chosen from them keep their
\* types, whatever lists come back and in whatever order (updateToTokenList).
THEOREM TokensTypeCorrect == TokensSpec => []TokensTypeOK
  BY InitTokensTyped, NextTokensTyped, PTL DEF TokensSpec

-----------------------------------------------------------------------------
(* The routes keep their types.  The ops submitted after the one of a      *)
(* route are at most those of the other routes and the bound on the rest.  *)

InOps == {r \in RouteIds : opStatus[r] # "none"}

RoutesInv ==
    /\ RoutesTypeOK
    /\ \A r \in RouteIds : newer[r] <= MaxOthers + Cardinality(InOps)

LEMMA PollsOrphaned ==
    ASSUME NEW ps, ps \in [PollSlots -> [asked : SUBSET RouteIds, live : BOOLEAN, busy : BOOLEAN]]
    PROVE  Orphaned(ps) \in [PollSlots -> [asked : SUBSET RouteIds, live : BOOLEAN, busy : BOOLEAN]]
  BY DEF Orphaned

LEMMA SetRoutesTyped ==
    ASSUME RoutesTypeOK,
           NEW s \in [RouteIds -> {"none", "ready", "in-progress"} \cup Settled],
           NEW h \in [RouteIds -> BOOLEAN],
           NEW ps \in [PollSlots -> [asked : SUBSET RouteIds, live : BOOLEAN, busy : BOOLEAN]],
           SetRoutes(s, h, ps)
    PROVE  /\ status' = s /\ hash' = h /\ loop' \in {"off", "armed", "running"}
           /\ polls' \in [PollSlots -> [asked : SUBSET RouteIds, live : BOOLEAN, busy : BOOLEAN]]
  BY PollsOrphaned DEF SetRoutes, RoutesTypeOK

\* The steps after which no more ops are known.
LEMMA RoutesKept ==
    ASSUME RoutesInv, newer' = newer,
           opStatus' \in [RouteIds -> {"none", "broadcast", "success", "failure", "unknown"}],
           InOps' = InOps, UNCHANGED <<pollPromise, pollSession>>,
           status' \in [RouteIds -> {"none", "ready", "in-progress"} \cup Settled],
           hash' \in [RouteIds -> BOOLEAN], truth' \in [RouteIds -> {"pending"} \cup Settled],
           loop' \in {"off", "armed", "running"},
           polls' \in [PollSlots -> [asked : SUBSET RouteIds, live : BOOLEAN, busy : BOOLEAN]]
    PROVE  RoutesInv'
  BY DEF RoutesInv, RoutesTypeOK

LEMMA RouteStepsTyped ==
    ASSUME RoutesInv, NEW r \in RouteIds,
           \/ QueueRoute(r) \/ RemoveRoute(r) \/ ProviderLearns(r)
           \/ \E found \in {"success", "failure", "unknown"} : OpSettles(r, found)
    PROVE  RoutesInv'
  <1>0. RoutesTypeOK /\ PollSlots \subseteq Nat
    BY WindowAssumption DEF RoutesInv
  <1>1. CASE QueueRoute(r)
    <2> DEFINE s == [status EXCEPT ![r] = "ready"]
    <2>1. s \in [RouteIds -> {"none", "ready", "in-progress"} \cup Settled]
      BY <1>0 DEF RoutesTypeOK
    <2>2. SetRoutes(s, hash, polls) /\ UNCHANGED <<opStatus, newer, truth, pollPromise, pollSession>>
      BY <1>1 DEF QueueRoute
    <2> HIDE DEF s
    <2> QED  BY <1>0, <2>1, <2>2, SetRoutesTyped, RoutesKept DEF RoutesTypeOK, InOps
  <1>2. CASE RemoveRoute(r)
    <2> DEFINE s == [status EXCEPT ![r] = "none"]
               h == [hash EXCEPT ![r] = FALSE]
    <2>1. s \in [RouteIds -> {"none", "ready", "in-progress"} \cup Settled] /\ h \in [RouteIds -> BOOLEAN]
      BY <1>0 DEF RoutesTypeOK
    <2>2. SetRoutes(s, h, polls) /\ UNCHANGED <<opStatus, newer, truth, pollPromise, pollSession>>
      BY <1>2 DEF RemoveRoute
    <2> HIDE DEF s, h
    <2> QED  BY <1>0, <2>1, <2>2, SetRoutesTyped, RoutesKept DEF RoutesTypeOK, InOps
  <1>3. CASE ProviderLearns(r)
    <2>1. truth' \in [RouteIds -> {"pending"} \cup Settled]
      BY <1>0, <1>3 DEF ProviderLearns, RoutesTypeOK, Settled
    <2> QED  BY <1>0, <1>3, <2>1, RoutesKept DEF ProviderLearns, RoutesTypeOK, InOps
  <1>4. ASSUME NEW found \in {"success", "failure", "unknown"}, OpSettles(r, found)
        PROVE  RoutesInv'
    <2> DEFINE at == CASE found = "failure" -> "failed"
                       [] found = "success" /\ r \notin BridgeRoutes -> "completed"
                       [] OTHER -> status[r]
               s == [status EXCEPT ![r] = at]
               h == [hash EXCEPT ![r] = hash[r] \/ found \in {"success", "failure"}]
    <2>1. at \in {"none", "ready", "in-progress"} \cup Settled
      BY <1>0 DEF RoutesTypeOK, Settled
    <2>2. updateActiveRoute(r, at, hash[r] \/ found \in {"success", "failure"})
          /\ UNCHANGED <<newer, truth, pollPromise, pollSession>>
          /\ opStatus' = [opStatus EXCEPT ![r] = found] /\ opStatus[r] = "broadcast"
      BY <1>4 DEF OpSettles
    <2> HIDE DEF at
    <2>3. s \in [RouteIds -> {"none", "ready", "in-progress"} \cup Settled] /\ h \in [RouteIds -> BOOLEAN]
      BY <1>0, <2>1 DEF RoutesTypeOK
    <2>4. SetRoutes(s, h, polls) \/ UNCHANGED <<status, hash, loop, polls>>
      BY <2>2 DEF updateActiveRoute
    <2> HIDE DEF s, h
    <2>5. /\ status' \in [RouteIds -> {"none", "ready", "in-progress"} \cup Settled]
          /\ hash' \in [RouteIds -> BOOLEAN] /\ loop' \in {"off", "armed", "running"}
          /\ polls' \in [PollSlots -> [asked : SUBSET RouteIds, live : BOOLEAN, busy : BOOLEAN]]
      <3>1. CASE SetRoutes(s, h, polls)
        BY <1>0, <2>3, <3>1, SetRoutesTyped DEF RoutesTypeOK
      <3>2. CASE UNCHANGED <<status, hash, loop, polls>>
        BY <1>0, <3>2 DEF RoutesTypeOK
      <3> QED  BY <2>4, <3>1, <3>2
    <2>6. opStatus' \in [RouteIds -> {"none", "broadcast", "success", "failure", "unknown"}]
      BY <1>0, <2>2 DEF RoutesTypeOK
    <2>7. InOps' = InOps
      BY <1>0, <2>2 DEF RoutesTypeOK, InOps
    <2>8. truth' \in [RouteIds -> {"pending"} \cup Settled]
      BY <1>0, <2>2 DEF RoutesTypeOK
    <2> QED  BY <2>2, <2>5, <2>6, <2>7, <2>8, RoutesKept
  <1> QED  BY <1>1, <1>2, <1>3, <1>4

LEMMA SubmitTyped ==
    ASSUME RoutesInv, IsFiniteSet(RouteIds),
           SubmitOther \/ \E r \in RouteIds : SubmitRoute(r)
    PROVE  RoutesInv'
  <1>0. /\ RoutesTypeOK /\ MaxOthers \in Nat
        /\ \A q \in RouteIds : newer[q] \in Nat /\ newer[q] <= MaxOthers + Cardinality(InOps)
    BY WindowAssumption, FS_CardinalityType DEF RoutesInv, RoutesTypeOK
  <1>1. IsFiniteSet(InOps) /\ Cardinality(InOps) \in Nat /\ Cardinality(RouteIds) \in Nat
        /\ Cardinality(InOps) <= Cardinality(RouteIds)
    <2>1. InOps \subseteq RouteIds
      BY DEF InOps
    <2> QED  BY <2>1, FS_Subset, FS_CardinalityType
  <1>2. CASE SubmitOther
    <2>1. newer' \in [RouteIds -> Nat] /\ InOps' = InOps
      BY <1>0, <1>2 DEF SubmitOther, RoutesTypeOK, InOps
    <2>2. \A q \in RouteIds : newer'[q] <= MaxOthers
      BY <1>0, <1>2 DEF SubmitOther
    <2>3. newer' \in [RouteIds -> 0..(MaxOthers + Cardinality(RouteIds))]
          /\ \A q \in RouteIds : newer'[q] <= MaxOthers + Cardinality(InOps')
      <3>1. \A q \in RouteIds : newer'[q] <= MaxOthers + Cardinality(RouteIds)
                                /\ newer'[q] <= MaxOthers + Cardinality(InOps)
        BY <1>0, <1>1, <2>1, <2>2
      <3> QED  BY <1>0, <1>1, <2>1, <3>1
    <2> QED  BY <1>0, <1>2, <2>3 DEF SubmitOther, RoutesInv, RoutesTypeOK, InOps
  <1>3. ASSUME NEW r \in RouteIds, SubmitRoute(r) PROVE RoutesInv'
    <2> DEFINE s == [status EXCEPT ![r] = "in-progress"]
               h == [hash EXCEPT ![r] = r \in HashedRoutes]
    <2>1. s \in [RouteIds -> {"none", "ready", "in-progress"} \cup Settled] /\ h \in [RouteIds -> BOOLEAN]
      BY <1>0 DEF RoutesTypeOK
    <2>2. SetRoutes(s, h, polls) /\ UNCHANGED <<truth, pollPromise, pollSession>>
      BY <1>3 DEF SubmitRoute
    <2> HIDE DEF s, h
    <2>3. /\ status' \in [RouteIds -> {"none", "ready", "in-progress"} \cup Settled]
          /\ hash' \in [RouteIds -> BOOLEAN] /\ loop' \in {"off", "armed", "running"}
          /\ polls' \in [PollSlots -> [asked : SUBSET RouteIds, live : BOOLEAN, busy : BOOLEAN]]
      BY <1>0, <2>1, <2>2, SetRoutesTyped DEF RoutesTypeOK
    <2>4. InOps' = InOps \cup {r} /\ r \notin InOps
      BY <1>0, <1>3 DEF SubmitRoute, RoutesTypeOK, InOps
    <2>5. Cardinality(InOps') = Cardinality(InOps) + 1
      BY <1>1, <2>4, FS_AddElement
    <2>6. Cardinality(InOps') <= Cardinality(RouteIds)
      <3>1. InOps' \subseteq RouteIds
        BY <2>4 DEF InOps
      <3> QED  BY <3>1, FS_Subset
    <2>7. \A q \in RouteIds : newer'[q] \in Nat /\ newer'[q] <= newer[q] + 1
      BY <1>0, <1>3 DEF SubmitRoute
    <2>8. \A q \in RouteIds : newer'[q] <= MaxOthers + Cardinality(InOps')
                              /\ newer'[q] <= MaxOthers + Cardinality(RouteIds)
      BY <1>0, <1>1, <2>5, <2>6, <2>7
    <2>9. newer' \in [RouteIds -> 0..(MaxOthers + Cardinality(RouteIds))]
      BY <1>0, <1>1, <1>3, <2>7, <2>8 DEF SubmitRoute
    <2>10. opStatus' \in [RouteIds -> {"none", "broadcast", "success", "failure", "unknown"}]
      BY <1>0, <1>3 DEF SubmitRoute, RoutesTypeOK
    <2> QED  BY <1>0, <2>2, <2>3, <2>8, <2>9, <2>10 DEF RoutesInv, RoutesTypeOK
  <1> QED  BY <1>2, <1>3

LEMMA PollsTyped ==
    ASSUME RoutesInv, NEW p \in PollSlots,
           \/ BeginPoll(p) \/ EndPoll(p)
           \/ \E r \in RouteIds : RouteAnswered(p, r) \/ RouteNotAnswered(p, r)
    PROVE  RoutesInv'
  <1> DEFINE Polls == [asked : SUBSET RouteIds, live : BOOLEAN, busy : BOOLEAN]
  <1>0. /\ RoutesTypeOK /\ polls \in [PollSlots -> Polls] /\ NoPoll \in Polls
        /\ activeRoutesInProgress \subseteq RouteIds
    BY DEF RoutesInv, RoutesTypeOK, NoPoll, activeRoutesInProgress, Pollable
  <1>1. CASE BeginPoll(p)
    <2>1. polls' \in [PollSlots -> Polls] /\ pollPromise' \in PollSlots \cup {0}
          /\ pollSession' \subseteq RouteIds
      <3>1. CASE pollPromise # 0 /\ pollSession = activeRoutesInProgress
        <4>1. polls' = [polls EXCEPT ![p].live = TRUE] /\ UNCHANGED <<pollPromise, pollSession>>
          BY <1>1, <3>1 DEF BeginPoll
        <4> QED  BY <1>0, <4>1 DEF RoutesTypeOK
      <3>2. CASE ~ (pollPromise # 0 /\ pollSession = activeRoutesInProgress)
        <4> DEFINE new == [asked |-> {r \in activeRoutesInProgress : newer[r] < Window},
                           live |-> TRUE, busy |-> TRUE]
        <4>1. new \in Polls
          BY <1>0
        <4>2. polls' = [polls EXCEPT ![p] = new] /\ pollPromise' = p
              /\ pollSession' = activeRoutesInProgress
          BY <1>1, <3>2 DEF BeginPoll
        <4> HIDE DEF new
        <4> QED  BY <1>0, <4>1, <4>2
      <3> QED  BY <3>1, <3>2
    <2> QED  BY <1>0, <1>1, <2>1 DEF BeginPoll, RoutesInv, RoutesTypeOK, InOps
  <1>2. CASE EndPoll(p)
    <2>1. polls' \in [PollSlots -> Polls] /\ pollPromise' \in PollSlots \cup {0}
          /\ loop' \in {"off", "armed", "running"}
      BY <1>0, <1>2 DEF EndPoll, RoutesTypeOK
    <2> QED  BY <1>0, <1>2, <2>1 DEF EndPoll, RoutesInv, RoutesTypeOK, InOps
  <1>3. ASSUME NEW r \in RouteIds, RouteAnswered(p, r) \/ RouteNotAnswered(p, r) PROVE RoutesInv'
    <2> DEFINE ps == [polls EXCEPT ![p].asked = polls[p].asked \ {r}]
               s == [status EXCEPT ![r] = truth[r]]
    <2>1. ps \in [PollSlots -> Polls]
      BY <1>0
    <2>2. UNCHANGED <<opStatus, newer, truth, pollPromise, pollSession>>
      BY <1>3 DEF RouteAnswered, RouteNotAnswered
    <2>3. \/ polls' = ps /\ UNCHANGED <<status, hash, loop>>
          \/ SetRoutes(s, hash, ps) /\ truth[r] # "pending"
          \/ SetRoutes(status, hash, ps)
      BY <1>3 DEF RouteAnswered, RouteNotAnswered
    <2>4. truth[r] # "pending" => s \in [RouteIds -> {"none", "ready", "in-progress"} \cup Settled]
      BY <1>0 DEF RoutesTypeOK
    <2> HIDE DEF ps, s
    <2>5. /\ status' \in [RouteIds -> {"none", "ready", "in-progress"} \cup Settled]
          /\ hash' \in [RouteIds -> BOOLEAN] /\ loop' \in {"off", "armed", "running"}
          /\ polls' \in [PollSlots -> Polls]
      <3>1. CASE polls' = ps /\ UNCHANGED <<status, hash, loop>>
        BY <1>0, <2>1, <3>1 DEF RoutesTypeOK
      <3>2. CASE SetRoutes(s, hash, ps) /\ truth[r] # "pending"
        BY <1>0, <2>1, <2>4, <3>2, SetRoutesTyped DEF RoutesTypeOK
      <3>3. CASE SetRoutes(status, hash, ps)
        BY <1>0, <2>1, <3>3, SetRoutesTyped DEF RoutesTypeOK
      <3> QED  BY <2>3, <3>1, <3>2, <3>3
    <2> QED  BY <1>0, <2>2, <2>5, RoutesKept DEF RoutesTypeOK, InOps
  <1> QED  BY <1>1, <1>2, <1>3

LEMMA InitRoutesInv == IsFiniteSet(RouteIds) /\ RoutesInit => RoutesInv
  <1> SUFFICES ASSUME IsFiniteSet(RouteIds), RoutesInit PROVE RoutesInv
    OBVIOUS
  <1>1. InOps = {}
    BY DEF RoutesInit, InOps
  <1>2. Cardinality(InOps) = 0 /\ Cardinality(RouteIds) \in Nat /\ MaxOthers \in Nat
    BY <1>1, FS_EmptySet, FS_CardinalityType, WindowAssumption
  <1> QED  BY <1>2 DEF RoutesInit, RoutesInv, RoutesTypeOK, NoPoll, Settled

LEMMA NextRoutesInv ==
    IsFiniteSet(RouteIds) /\ RoutesInv /\ [RoutesNext]_routeVars => RoutesInv'
  <1> SUFFICES ASSUME IsFiniteSet(RouteIds), RoutesInv, [RoutesNext]_routeVars PROVE RoutesInv'
    OBVIOUS
  <1>1. CASE SubmitOther \/ \E r \in RouteIds : SubmitRoute(r)
    BY <1>1, SubmitTyped
  <1>2. ASSUME NEW r \in RouteIds,
               \/ QueueRoute(r) \/ RemoveRoute(r) \/ ProviderLearns(r)
               \/ \E found \in {"success", "failure", "unknown"} : OpSettles(r, found)
        PROVE  RoutesInv'
    BY <1>2, RouteStepsTyped
  <1>3. ASSUME NEW p \in PollSlots,
               \/ BeginPoll(p) \/ EndPoll(p)
               \/ \E r \in RouteIds : RouteAnswered(p, r) \/ RouteNotAnswered(p, r)
        PROVE  RoutesInv'
    BY <1>3, PollsTyped
  <1>4. CASE UNCHANGED routeVars
    BY <1>4 DEF routeVars, RoutesInv, RoutesTypeOK, InOps
  <1> QED  BY <1>1, <1>2, <1>3, <1>4 DEF RoutesNext

\* The submitted routes and the polls of their status keep their types, for
\* any finite set of routes (continuouslyUpdateActiveRoutes).
THEOREM RoutesTypeCorrect ==
    ASSUME IsFiniteSet(RouteIds) PROVE RoutesSpec => []RoutesTypeOK
  <1>1. RoutesInit => RoutesInv
    BY InitRoutesInv
  <1>2. RoutesInv /\ [RoutesNext]_routeVars => RoutesInv'
    BY NextRoutesInv
  <1>3. RoutesInv => RoutesTypeOK
    BY DEF RoutesInv
  <1> QED  BY <1>1, <1>2, <1>3, PTL DEF RoutesSpec

\* The three parts of the controller side by side: their variables keep their
\* types, for any forms, routes and networks.
THEOREM SwapTypesCorrect ==
    ASSUME IsFiniteSet(RouteIds) PROVE Spec => []TypeOK
  <1> DEFINE Inv == SwapTypeOK /\ RoutesInv /\ TokensTypeOK
  <1>1. Init => Inv
    BY InitSwapTyped, InitRoutesInv, InitTokensTyped DEF Init
  <1>2. Inv /\ [Next]_vars => Inv'
    <2> SUFFICES ASSUME Inv, [Next]_vars PROVE Inv'
      OBVIOUS
    <2>1. [SwapNext]_swapVars /\ [RoutesNext]_routeVars /\ [TokensNext]_tokenVars
      BY DEF Next, vars
    <2> QED  BY <2>1, NextSwapTyped, NextRoutesInv, NextTokensTyped
  <1>3. Inv => TypeOK
    BY DEF TypeOK, RoutesInv
  <1> QED  BY <1>1, <1>2, <1>3, PTL DEF Spec
=============================================================================
