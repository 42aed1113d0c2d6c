------------------------------- MODULE MC_Infra -------------------------------
(***************************************************************************)
(* The keystore, its email vault, the accounts and keys the picker brings  *)
(* in, the storage, messages from their requests to their signatures, and  *)
(* the connections of apps, for TLC.  The modules share no state, so that  *)
(* a behaviour is about one of them, chosen at the start.                  *)
(***************************************************************************)
EXTENDS MC_Keystore, EmailVault, Storage, SignMessage, SignRequests, AccountPicker,
        DappConnections

CONSTANT Focuses
VARIABLE focus

\* Two messages of an account and one of another; the second is a smart one.
mcAddressOf == [d \in Dapps |-> IF d = "d1" THEN "a1" ELSE "a2"]
mcOwnerOf == [m \in Messages |-> IF m = "m1" THEN "a1" ELSE "a2"]

Stored(networks, accounts, keys, tokens, custom, history, apps) ==
    [networkPreferences |-> "none", networks |-> networks,
     accountPreferences |-> "none", accounts |-> accounts,
     keyPreferences |-> IF keys = "unlabelled" THEN "old" ELSE "none", keys |-> keys,
     tokenPreferences |-> tokens, customTokens |-> custom, history |-> history,
     dapps |-> apps, dappsV2 |-> "none", renewed |-> {}]

\* What versions 4.23 (with accounts and without), 4.30 and 5.20 stored, and
\* nothing.
V430 == Stored("named", "new", "unlabelled", "mixed", "none", "named", "old")
V423 == [V430 EXCEPT !.networks = "none", !.networkPreferences = "old",
                     !.accounts = "old", !.accountPreferences = "old"]
mcOrigins ==
    {[db |-> V423, passed |-> {}], [db |-> V430, passed |-> {}],
     [db |-> [V423 EXCEPT !.accounts = "none", !.keys = "none"], passed |-> {}],
     [db |-> Stored("chained", "new", "labelled", "chained", "chained", "chained", "old"),
      passed |-> {"networkPreferences", "accountPreferences", "seeds", "keyPreferences",
                  "keyMeta", "tokens", "chainIds"}],
     [db |-> Stored("none", "none", "none", "none", "none", "none", "none"), passed |-> {}]}

InfraInit ==
    /\ focus \in Focuses
    /\ Init /\ (focus # "keystore" => disk = Empty)
    /\ VaultInit /\ StorageInit /\ MessageInit /\ RequestsInit /\ PickerInit
    /\ ConnectionsInit
    /\ focus # "picker" => storeReady
    /\ focus # "requests" => selected = "a1"
    /\ focus # "storage" => origin.db.networks = "none" /\ origin.db.dapps = "none"

InfraNext ==
    /\ UNCHANGED focus
    /\ IF focus = "keystore" THEN Next ELSE UNCHANGED vars
    /\ IF focus = "vault" THEN VaultNext ELSE UNCHANGED vaultVars
    /\ IF focus = "storage" THEN StorageNext ELSE UNCHANGED storageVars
    /\ IF focus = "message" THEN MessageNext ELSE UNCHANGED messageVars
    /\ IF focus = "requests" THEN RequestsNext ELSE UNCHANGED requestVars
    /\ IF focus = "picker" THEN PickerNext ELSE UNCHANGED pickerVars
    /\ IF focus = "apps" THEN ConnectionsNext ELSE UNCHANGED connectionVars

InfraSpec ==
    /\ InfraInit
    /\ [][InfraNext]_<<focus, vars, vaultVars, storageVars, messageVars, requestVars,
                      pickerVars, connectionVars>>

\* All variables of the modules have their types.
InfraTypeOK == /\ TypeOK /\ VaultTypeOK /\ StorageTypeOK
               /\ MessageTypeOK /\ RequestsTypeOK /\ PickerTypeOK
               /\ ConnectionsTypeOK
=============================================================================
