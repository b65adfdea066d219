----------------------------- MODULE Encryption -----------------------------
(***************************************************************************)
(* internal/encryption: a body is sealed for the domain's public key when  *)
(* it arrives and opened with a private key that the reader supplies.  The *)
(* curve and the cipher are ideal (external): what is sealed for a key     *)
(* opens with the private key of the same pair and with no other.          *)
(***************************************************************************)
EXTENDS Integers

KeySize == 32
NonceSize == 12
CurrentVersion == 1

Error == [error |-> TRUE]

\* A public key as text: whether it begins with the prefix, how long it is, with how
\* many hexadecimal digits it goes on, and the key pair it was taken from.
FormattedKey == [prefix : BOOLEAN, length : Nat, digits : Nat, pair : STRING]

\* Sscanf with %x stops at the first character that is no digit and leaves the rest
\* unread, so a text of the right length may yield fewer bytes than a key has.
ParsePublicKey(k) ==
    IF k.prefix /\ k.length = 7 + 2 * KeySize /\ k.digits >= 2 /\ k.digits % 2 = 0
    THEN [size |-> k.digits \div 2, pair |-> k.pair] ELSE Error

Encrypt_Padded(body, key) ==
    [key |-> KeySize, nonce |-> NonceSize,
     sealed |-> [body |-> body, pair |-> IF key.size = KeySize THEN key.pair ELSE "padded"]]

\* A key of the right size that is no point of small order; rand.Read does not fail.
Encrypt(body, key) ==
    IF key.size = KeySize
    THEN [key |-> KeySize, nonce |-> NonceSize, sealed |-> [body |-> body, pair |-> key.pair]]
    ELSE Error

Serialize(e) == [version |-> CurrentVersion, data |-> e]

DeserializeEncryptedData(s) == IF s.version = CurrentVersion THEN s.data ELSE Error

Decrypt(e, private) ==
    IF /\ private.size = KeySize /\ e.key = KeySize /\ e.nonce = NonceSize
       /\ e.sealed.pair = private.pair
    THEN e.sealed.body ELSE Error

\* Session.encryptEmailBody.
encryptEmailBody(body, key) ==
    IF ParsePublicKey(key) = Error THEN Error
    ELSE LET e == Encrypt(body, ParsePublicKey(key))
         IN IF e = Error THEN Error ELSE Serialize(e)

\* RenderEngine.ParseFromEncrypted, as far as the text to be parsed.
ParseFromEncrypted(stored, private) ==
    LET e == DeserializeEncryptedData(stored)
    IN IF e = Error THEN Error ELSE Decrypt(e, private)

\* GetParsedReceivedEmail of the owner's mail: without a private key nothing is parsed.
NoKey == [size |-> 0, pair |-> ""]
GetParsedReceivedEmail(stored, private) ==
    IF private = NoKey THEN Error ELSE ParseFromEncrypted(stored, private)
=============================================================================
