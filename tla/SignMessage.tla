----------------------------- MODULE SignMessage -----------------------------
(***************************************************************************)
(* SignMessageController: the message that is on screen is signed by a key *)
(* or a device, checked on chain for a smart account, and the dapp that    *)
(* asked for it gets the signature (MainController.handleSignMessage).     *)
(*                                                                         *)
(* A signing is suspended at every await.  Meanwhile another request may   *)
(* install its message: #signingGeneration tells the two apart.            *)
(*                                                                         *)
(* A key is named after its account.  Left out: Safe accounts, which need  *)
(* several signatures; humanization; the formats of messages.              *)
(***************************************************************************)
EXTENDS Naturals

CONSTANTS Messages, Owners,
          OwnerOf,       \* the account each message is for
          SmartOwners,   \* accounts whose signatures are checked on chain
          Signings,      \* slots of calls of sign
          NoMessage,     \* no message, no key, no signature
          MAX_INSTALLS,  \* bound on the calls of init and reset
          MessageEnvironment

ASSUME OwnersAssumption == OwnerOf \in [Messages -> Owners] /\ SmartOwners \subseteq Owners
ASSUME NoneAssumption == NoMessage \notin Messages \cup Owners
ASSUME InstallsAssumption == MAX_INSTALLS \in Nat
\* "late state": the state of an account arrives when the next message is
\* installed already.
ASSUME MessageEnvironmentAssumption == MessageEnvironment \subseteq {"late state"}

VARIABLES message,     \* messageToSign
          generation,  \* #signingGeneration
          first,       \* the first of signatures, the one that is used
          signers,     \* the account whose key is chosen
          signer,      \* the account whose key signs
          fetching,    \* messages whose init awaits the account's state
          busy,        \* statuses.sign is not INITIAL
          signing,     \* the calls of sign
          signed,      \* signedMessage
          approved,    \* what the user asked to sign
          answered     \* what the dapps got

messageVars == <<message, generation, first, signers, signer, fetching, busy, signing,
                 signed, approved, answered>>

Signatures == [of : Messages, by : Owners]
NoSigning == [pc |-> "idle", generation |-> 0, key |-> NoMessage, signature |-> NoMessage]
Nobody == [of |-> NoMessage, signature |-> NoMessage]

MessageTypeOK ==
    /\ message \in Messages \cup {NoMessage} /\ generation \in 0..MAX_INSTALLS
    /\ first \in Signatures \cup {NoMessage}
    /\ signers \in Owners \cup {NoMessage} /\ signer \in Owners \cup {NoMessage}
    /\ fetching \subseteq Messages /\ busy \in BOOLEAN
    /\ signing \in [Signings -> [pc : {"idle", "signer", "state", "device", "verify", "done"},
                                 generation : 0..MAX_INSTALLS, key : Owners \cup {NoMessage},
                                 signature : Signatures \cup {NoMessage}]]
    /\ signed \in [of : Messages, signature : Signatures] \cup {Nobody}
    /\ approved \subseteq Messages
    /\ answered \in [Messages -> Signatures \cup {NoMessage}]

MessageInit ==
    /\ message = NoMessage /\ generation = 0 /\ first = NoMessage
    /\ signers = NoMessage /\ signer = NoMessage /\ fetching = {} /\ busy = FALSE
    /\ signing = [s \in Signings |-> NoSigning]
    /\ signed = Nobody /\ approved = {} /\ answered = [m \in Messages |-> NoMessage]

-----------------------------------------------------------------------------
(* What the request window installs.                                       *)

\* The steps of a reset that an installation makes as well.
Cleared ==
    /\ generation < MAX_INSTALLS /\ generation' = generation + 1
    /\ signers' = NoMessage /\ signer' = NoMessage /\ signed' = Nobody

\* init, to the fetch of the account's state.
InstallMessage(m) ==
    /\ answered[m] = NoMessage
    /\ "late state" \in MessageEnvironment \/ fetching = {}
    /\ Cleared
    /\ message' = m /\ first' = NoMessage /\ fetching' = fetching \cup {m}
    /\ UNCHANGED <<busy, signing, approved, answered>>

\* The rest of init: the key of the account whose state was fetched is the
\* default one. A failure, or a reset meanwhile, leaves things as they are.
StateFetched(m) ==
    /\ m \in fetching /\ fetching' = fetching \ {m}
    /\ signers' \in {signers} \cup IF message # NoMessage THEN {OwnerOf[m]} ELSE {}
    /\ UNCHANGED <<message, generation, first, signer, busy, signing, signed, approved,
                   answered>>

\* setSigners: the user picks one of the account's keys.
SetSigners ==
    /\ message # NoMessage /\ signers' = OwnerOf[message]
    /\ UNCHANGED <<message, generation, first, signer, fetching, busy, signing, signed,
                   approved, answered>>

\* reset keeps the signatures.
ResetMessage ==
    /\ message # NoMessage /\ Cleared /\ message' = NoMessage
    /\ UNCHANGED <<first, fetching, busy, signing, approved, answered>>

-----------------------------------------------------------------------------
(* Signing.                                                                *)

\* Mutant: a signing goes on as long as some message is installed.
ValidWhileInstalled(s) == message # NoMessage

\* #isSigningOperationValidAfterAsyncOperation
Valid(s) == message # NoMessage /\ signing[s].generation = generation

SigningMoves(s, pc) == signing' = [signing EXCEPT ![s].pc = pc]

\* withStatus ends, however the signing does.
SigningEnds(s) == signing' = [signing EXCEPT ![s] = NoSigning] /\ busy' = FALSE

\* sign, to the fetch of the signer.
Approve(s) ==
    /\ ~busy /\ message # NoMessage /\ signers # NoMessage /\ signing[s] = NoSigning
    /\ busy' = TRUE /\ approved' = approved \cup {message}
    /\ signing' = [signing EXCEPT ![s] = [NoSigning EXCEPT !.pc = "signer", !.key = signers,
                                                      !.generation = generation]]
    /\ UNCHANGED <<message, generation, first, signers, signer, fetching, signed, answered>>

\* The signer is assigned before the generation is looked at.
SignerFound(s) ==
    /\ signing[s].pc = "signer"
    /\ signer' = signing[s].key
    /\ IF Valid(s) THEN SigningMoves(s, "state") /\ UNCHANGED busy ELSE SigningEnds(s)
    /\ UNCHANGED <<message, generation, first, signers, fetching, signed, approved,
                   answered>>

\* The account's state is there. The message and the signer are those of now,
\* whether or not they are those the user approved.
AskDevice(s) ==
    /\ signing[s].pc = "state"
    /\ IF message # NoMessage /\ signer # NoMessage
       THEN /\ signing' = [signing EXCEPT ![s] =
                             [@ EXCEPT !.pc = "device",
                                       !.signature = [of |-> message, by |-> signer]]]
            /\ UNCHANGED busy
       ELSE SigningEnds(s)
    /\ UNCHANGED <<message, generation, first, signers, signer, fetching, signed, approved,
                   answered>>

\* signedMessage is set.
Stores(s, signature) ==
    /\ signed' = [of |-> message, signature |-> signature]
    /\ SigningMoves(s, "done") /\ UNCHANGED busy

\* The device signed: the signature is added to those of the message that is
\* installed, and then the generation is looked at.
DeviceSigns(s) ==
    /\ signing[s].pc = "device"
    /\ first' = IF first = NoMessage THEN signing[s].signature ELSE first
    /\ IF ~Valid(s) THEN SigningEnds(s) /\ UNCHANGED signed
       ELSE IF OwnerOf[message] \in SmartOwners
            THEN /\ signing' = [signing EXCEPT ![s] = [@ EXCEPT !.pc = "verify",
                                                                !.signature = first']]
                 /\ UNCHANGED <<signed, busy>>
            ELSE Stores(s, first')
    /\ UNCHANGED <<message, generation, signers, signer, fetching, approved, answered>>

\* verifyMessage answers.
SignatureVerified(s) ==
    /\ signing[s].pc = "verify"
    /\ IF Valid(s) /\ signing[s].signature = [of |-> message, by |-> OwnerOf[message]]
       THEN Stores(s, signing[s].signature)
       ELSE SigningEnds(s) /\ UNCHANGED signed
    /\ UNCHANGED <<message, generation, first, signers, signer, fetching, approved,
                   answered>>

\* The state, the device or the verification fails, or the user refuses.
SigningFails(s) ==
    /\ signing[s].pc \in {"signer", "state", "device", "verify"} /\ SigningEnds(s)
    /\ UNCHANGED <<message, generation, first, signers, signer, fetching, signed, approved,
                   answered>>

\* cancelSignReq frees the status of a signing that hangs.
CancelSignReq ==
    /\ busy /\ busy' = FALSE
    /\ UNCHANGED <<message, generation, first, signers, signer, fetching, signing, signed,
                   approved, answered>>

\* handleSignMessage goes on: the request of the signed message is resolved.
ResolveSignMessage(s) ==
    /\ signing[s].pc = "done" /\ SigningEnds(s)
    /\ answered' = [m \in Messages |->
                      IF m = signed.of /\ answered[m] = NoMessage THEN signed.signature
                      ELSE answered[m]]
    /\ UNCHANGED <<message, generation, first, signers, signer, fetching, signed, approved>>

MessageNext ==
    \/ \E m \in Messages : InstallMessage(m) \/ StateFetched(m)
    \/ SetSigners \/ ResetMessage \/ CancelSignReq
    \/ \E s \in Signings :
         \/ Approve(s) \/ SignerFound(s) \/ AskDevice(s) \/ DeviceSigns(s)
         \/ SignatureVerified(s) \/ SigningFails(s) \/ ResolveSignMessage(s)

MessageSpec == MessageInit /\ [][MessageNext]_messageVars

-----------------------------------------------------------------------------
\* A dapp is answered only if the user asked to sign its message: one that
\* is installed while another one is being signed is not answered by that
\* approval (#signingGeneration, handleSignMessage).
AnsweredWasApproved == \A m \in Messages : answered[m] # NoMessage => m \in approved

\* A dapp gets the signature of its own message: a signing is checked after
\* each async step, "to guard against a race condition where the operation is
\* reset or the installed message is replaced before the async operation is
\* completed" (#isSigningOperationValidAfterAsyncOperation).
AnswerIsItsSignature == \A m \in Messages : answered[m] # NoMessage => answered[m].of = m
=============================================================================
