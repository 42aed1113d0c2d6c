----------------------------- MODULE AccountPicker -----------------------------
(***************************************************************************)
(* AccountPickerController: the pages of accounts derived from a seed, a   *)
(* private key or a device, the accounts chosen from them, and their       *)
(* import by MainController, keys first.                                   *)
(*                                                                         *)
(* An account is where it is derived from, so that its key is the one      *)
(* derived there.  A page shows one account, for the accounts of a page    *)
(* come and go together; networks on which they were used are left out,    *)
(* as are linked accounts (they are listed only with a derived account     *)
(* that is one of their keys), smart accounts, the email flow, deselected  *)
(* accounts that are removed, and the automatic choice of the next one.    *)
(***************************************************************************)
EXTENDS Naturals

CONSTANTS Iterators,     \* key iterators: one per seed, private key or device
          PrivateKeys,   \* those of a private key, whose accounts are preselected
          Paths,         \* HD path templates
          Pages,
          PageCalls,     \* identifiers of setPage calls
          AddCalls,      \* identifiers of addAccounts calls, used once each
          NoIterator, NoPath,
          PickerEnvironment

\* "repath", "reset": the path is changed, or the picker closed, while a page
\* loads.  "twice": accounts are added while others are.
ASSUME PickerEnvironmentAssumption == PickerEnvironment \subseteq {"repath", "reset", "twice"}
ASSUME PickerAssumption ==
    /\ NoIterator \notin Iterators /\ NoPath \notin Paths
    /\ Pages \subseteq Nat /\ 1 \in Pages

VARIABLES keyIterator,   \* and isInitialized, which agrees with it
          hdPath,        \* hdPathTemplate
          page,
          derived,       \* #derivedAccounts
          chosen,        \* selectedAccountsFromCurrentSession
          pageCalls,     \* setPage calls that wait
          storeReady,    \* keystore.isReadyToStoreKeys
          putOff,        \* #addAccountsOnKeystoreReady
          addCalls,      \* addAccounts calls, up to the end of their callback
          addPromise,    \* whose addAccountsPromise it is
          readyToAdd,    \* readyToAddAccounts and readyToAddKeys
          storedKeys,    \* keys the picker's imports gave to the keystore
          imported       \* accounts they added

pickerView == <<keyIterator, hdPath, page, derived, chosen, pageCalls>>
pickerAdds == <<storeReady, putOff, addCalls, addPromise, readyToAdd, storedKeys, imported>>
pickerVars == <<pickerView, pickerAdds>>

Derivations == [from : Iterators, path : Paths, page : Pages]
DerivedAt(it, p, n) == [from |-> it, path |-> p, page |-> n]

NoCall == [at |-> "idle"]
Nothing == [accounts |-> {}, keys |-> {}]

PickerTypeOK ==
    /\ keyIterator \in Iterators \cup {NoIterator} /\ hdPath \in Paths \cup {NoPath}
    /\ page \in Pages /\ derived \subseteq Derivations /\ chosen \subseteq Derivations
    /\ pageCalls \in [PageCalls ->
         {NoCall} \cup [at : {"derive", "used"}, page : Pages, found : Derivations]]
    /\ storeReady \in BOOLEAN /\ putOff \in BOOLEAN
    /\ addCalls \in [AddCalls -> {"unused", "begun", "taken", "stored", "over"}]
    /\ addPromise \subseteq AddCalls
    /\ readyToAdd \in [accounts : SUBSET Derivations, keys : SUBSET Derivations]
    /\ storedKeys \subseteq Derivations /\ imported \subseteq Derivations

PickerInit ==
    /\ keyIterator = NoIterator /\ hdPath = NoPath /\ page = 1
    /\ derived = {} /\ chosen = {} /\ pageCalls = [c \in PageCalls |-> NoCall]
    /\ storeReady \in BOOLEAN /\ putOff = FALSE
    /\ addCalls = [a \in AddCalls |-> "unused"] /\ addPromise = {}
    /\ readyToAdd = Nothing /\ storedKeys = {} /\ imported = {}

PageLoads == \E c \in PageCalls : pageCalls[c] # NoCall
UnderWay(a) == addCalls[a] \in {"begun", "taken", "stored"}

-----------------------------------------------------------------------------
\* reset, also the first part of init.  It waits for the accounts being added.
ClosePicker ==
    /\ addPromise = {}
    /\ "reset" \in PickerEnvironment \/ ~PageLoads
    /\ keyIterator' = NoIterator /\ hdPath' = NoPath /\ page' = 1
    /\ derived' = {} /\ chosen' = {} /\ readyToAdd' = Nothing /\ putOff' = FALSE
    /\ UNCHANGED <<pageCalls, storeReady, addCalls, addPromise, storedKeys, imported>>

\* The rest of init, after reset.
OpenPicker(it, p, n) ==
    /\ keyIterator = NoIterator
    /\ keyIterator' = it /\ hdPath' = p /\ page' = n
    /\ UNCHANGED <<derived, chosen, pageCalls, pickerAdds>>

\* setPage, up to the derivation.
Derive(c, p, n) ==
    /\ pageCalls[c] = NoCall
    /\ page' = n /\ derived' = {}
    /\ pageCalls' = [pageCalls EXCEPT
         ![c] = [at |-> "derive", page |-> n, found |-> DerivedAt(keyIterator, p, n)]]

SetPage(c, n) ==
    /\ keyIterator # NoIterator
    /\ n # page \/ derived = {}
    /\ Derive(c, hdPath, n)
    /\ UNCHANGED <<keyIterator, hdPath, chosen, pickerAdds>>

\* Mutant: the accounts chosen under the path before stay.
KeepsChosen == chosen

\* What is chosen when the path changes.
ChosenOnNewPath == {}

\* setHDPathTemplateAndPage.
SetPath(c, p, n) ==
    /\ keyIterator # NoIterator
    /\ p # hdPath \/ n # page
    /\ "repath" \in PickerEnvironment \/ p = hdPath \/ ~PageLoads
    /\ hdPath' = p /\ chosen' = ChosenOnNewPath
    /\ Derive(c, p, n)
    /\ UNCHANGED <<keyIterator, pickerAdds>>

Finished(c) == pageCalls' = [pageCalls EXCEPT ![c] = NoCall]

\* A call goes on only if the page is still the one it was called for.
OfThisPage(c) == pageCalls[c].page = page

Stale(c) ==
    /\ pageCalls[c] # NoCall /\ ~OfThisPage(c) /\ Finished(c)
    /\ UNCHANGED <<keyIterator, hdPath, page, derived, chosen, pickerAdds>>

\* The device or the seed gave the addresses.
Derived(c) ==
    /\ pageCalls[c].at = "derive" /\ OfThisPage(c)
    /\ derived' = {pageCalls[c].found}
    /\ pageCalls' = [pageCalls EXCEPT ![c].at = "used"]
    /\ UNCHANGED <<keyIterator, hdPath, page, chosen, pickerAdds>>

\* It refused: pageError.
DeriveFails(c) ==
    /\ pageCalls[c].at = "derive" /\ OfThisPage(c) /\ Finished(c)
    /\ UNCHANGED <<keyIterator, hdPath, page, derived, chosen, pickerAdds>>

\* The networks answered: the accounts are set again, with what was found.
\* Those of a private key are chosen if one of them was used.
UsedOnNetworks(c) ==
    /\ pageCalls[c].at = "used" /\ OfThisPage(c) /\ Finished(c)
    /\ derived' = {pageCalls[c].found}
    /\ \/ UNCHANGED chosen
       \/ keyIterator \in PrivateKeys /\ chosen' = chosen \cup derived'
    /\ UNCHANGED <<keyIterator, hdPath, page, pickerAdds>>

\* selectAccount and deselectAccount.
Select(x) ==
    /\ keyIterator # NoIterator
    /\ chosen' = chosen \cup {x}
    /\ UNCHANGED <<keyIterator, hdPath, page, derived, pageCalls, pickerAdds>>

Deselect(x) ==
    /\ keyIterator # NoIterator
    /\ chosen' = chosen \ {x}
    /\ UNCHANGED <<keyIterator, hdPath, page, derived, pageCalls, pickerAdds>>

-----------------------------------------------------------------------------
Begin(a) ==
    /\ addCalls[a] = "unused"
    /\ addCalls' = [addCalls EXCEPT ![a] = "begun"] /\ addPromise' = {a}

\* addAccounts, put off while the keystore has no secret.
AddAccounts ==
    /\ keyIterator # NoIterator
    /\ "twice" \in PickerEnvironment \/ \A a \in AddCalls : ~UnderWay(a)
    /\ \/ storeReady /\ (\E a \in AddCalls : Begin(a)) /\ UNCHANGED putOff
       \/ ~storeReady /\ putOff' = TRUE /\ UNCHANGED <<addCalls, addPromise>>
    /\ UNCHANGED <<pickerView, storeReady, readyToAdd, storedKeys, imported>>

\* The keystore got its first secret and told its subscribers.
KeystoreReady ==
    /\ ~storeReady /\ storeReady' = TRUE /\ putOff' = FALSE
    /\ \/ putOff /\ (\E a \in AddCalls : Begin(a))
       \/ ~putOff /\ UNCHANGED <<addCalls, addPromise>>
    /\ UNCHANGED <<pickerView, readyToAdd, storedKeys, imported>>

\* retrieveInternalKeys and the keys of a device: what the iterator of now has
\* at the index of an account, under the path of now.
KeysOf(accts) ==
    IF keyIterator = NoIterator \/ hdPath = NoPath THEN {}
    ELSE {DerivedAt(keyIterator, hdPath, x.page) : x \in accts}

\* #addAccounts after its first update.
TakeChosen(a) ==
    /\ addCalls[a] = "begun"
    /\ readyToAdd' = [accounts |-> chosen, keys |-> KeysOf(chosen)]
    /\ chosen' = {} /\ addCalls' = [addCalls EXCEPT ![a] = "taken"]
    /\ UNCHANGED <<keyIterator, hdPath, page, derived, pageCalls, storeReady, putOff,
                   addPromise, storedKeys, imported>>

\* #onAccountPickerSuccess: the keys,
KeysStored(a) ==
    /\ addCalls[a] = "taken"
    /\ storedKeys' = storedKeys \cup readyToAdd.keys
    /\ addCalls' = [addCalls EXCEPT ![a] = "stored"]
    /\ UNCHANGED <<pickerView, storeReady, putOff, addPromise, readyToAdd, imported>>

\* then the accounts, as they are by now.
AccountsSaved(a) ==
    /\ addCalls[a] = "stored"
    /\ imported' = imported \cup readyToAdd.accounts
    /\ addCalls' = [addCalls EXCEPT ![a] = "over"] /\ addPromise' = {}
    /\ UNCHANGED <<pickerView, storeReady, putOff, readyToAdd, storedKeys>>

PickerNext ==
    \/ ClosePicker
    \/ \E it \in Iterators, p \in Paths, n \in Pages : OpenPicker(it, p, n)
    \/ \E c \in PageCalls, n \in Pages :
         SetPage(c, n) \/ (\E p \in Paths : SetPath(c, p, n))
    \/ \E c \in PageCalls : Stale(c) \/ Derived(c) \/ DeriveFails(c) \/ UsedOnNetworks(c)
    \/ \E x \in derived : Select(x)
    \/ \E x \in chosen : Deselect(x)
    \/ AddAccounts \/ KeystoreReady
    \/ \E a \in AddCalls : TakeChosen(a) \/ KeysStored(a) \/ AccountsSaved(a)

PickerSpec == PickerInit /\ [][PickerNext]_pickerVars

-----------------------------------------------------------------------------
\* An account is added only with its own key in the keystore.  What was chosen,
\* on any page or before the keystore had a secret, keeps its index only; its key
\* is derived when it is added, by the iterator and under the path of that moment
\* (the comment at accountPicker.ts:532-534).
ImportedWithItsKey == imported \subseteq storedKeys
================================================================================
