----------------------------- MODULE BallotSeal -----------------------------
(***************************************************************************)
(* Sealing a ballot in the browser (packages/ballot-seal) and opening it   *)
(* at the tally (common/ballot-crypto).  Symbolic: a private key is a      *)
(* model value, its public key and everything derived are terms, equal     *)
(* only if all they were made from is; AES-GCM opens under the key and     *)
(* nonce that sealed, and refuses anything else.  Lengths are in bytes.    *)
(***************************************************************************)
EXTENDS Integers, Sequences

CONSTANTS
  Abstain,  \* the choice null
  Uuids     \* texts of 36 characters that are UUIDs

EPHEMERAL_PUBKEY_LEN == 65
NONCE_LEN            == 12
CIPHERTEXT_LEN       == 56
SEALED_BALLOT_LEN    == EPHEMERAL_PUBKEY_LEN + NONCE_LEN + CIPHERTEXT_LEN

Throws == "throws"
---------------------------------------------------------------------------
(* Keys                                                                    *)

rawPublicOf(private) == <<"public", private>>

generateElectionKeyPair(private) ==
  [publicKey |-> rawPublicOf(private), privateKey |-> private]

keyPairMatches(public, private) == rawPublicOf(private) = public

(* Both ends of a Diffie-Hellman exchange compute the same secret.         *)
diffieHellman(private, public) == {rawPublicOf(private), public}

deriveKey(shared, ephemeral, electionPub) ==
  [ikm |-> shared, salt |-> ephemeral, info |-> <<"kma-ballot-v1", electionPub>>]
---------------------------------------------------------------------------
(* Plaintext: a flag, and the candidate if the flag is 1.                  *)
Plain(choice) == IF choice = Abstain THEN [flag |-> 0, uuid |-> ""]
                 ELSE [flag |-> 1, uuid |-> choice]

(* What the browser sends, for a one-time private key and a nonce.         *)
SealPlain(electionPub, plain, ephemeral, nonce) ==
  [length    |-> SEALED_BALLOT_LEN,
   ephemeral |-> rawPublicOf(ephemeral),
   nonce     |-> nonce,
   body      |-> [key   |-> deriveKey(diffieHellman(ephemeral, electionPub),
                                      rawPublicOf(ephemeral), electionPub),
                  nonce |-> nonce, plain |-> plain]]

sealBallot(electionPub, choice, ephemeral, nonce) ==
  SealPlain(electionPub, Plain(choice), ephemeral, nonce)

(* Decryption authenticates: key and nonce are those of the sealing.       *)
Authentic(sealed, key) == sealed.body.key = key /\ sealed.body.nonce = sealed.nonce

OpenedLenient(plain) ==   \* whatever is no candidate abstains
  IF plain.flag = 1 /\ plain.uuid \in Uuids THEN plain.uuid ELSE Abstain

Opened(plain) ==
  CASE plain.flag = 0 -> Abstain
    [] plain.flag = 1 /\ plain.uuid \in Uuids -> plain.uuid
    [] OTHER -> Throws

openBallot(private, electionPub, sealed) ==
  LET key == deriveKey(diffieHellman(private, sealed.ephemeral), sealed.ephemeral, electionPub)
  IN IF sealed.length = SEALED_BALLOT_LEN /\ Authentic(sealed, key)
       THEN Opened(sealed.body.plain)
       ELSE Throws
=============================================================================
