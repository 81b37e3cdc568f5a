---------------------------------- MODULE Crypt ----------------------------------
(***************************************************************************)
(* The encryption of the last-used file: the key, the blocks and the       *)
(* padding (src/src/crypt.c).                                              *)
(*                                                                         *)
(* A text or a password is a sequence of bytes other than 0.  The cipher   *)
(* is AES in CBC mode, keyed with, and started from, the first bytes of    *)
(* the password: an encrypted block is determined by the key and by all    *)
(* the text up to the end of the block, and is modelled as these.          *)
(***************************************************************************)
EXTENDS Naturals, Sequences

CONSTANT BlockLength   \* 16, for the keys as for the blocks

ASSUME CryptAssumption == BlockLength \in Nat \ {0}

\* The bytes of s up to length n, filled up with 0.
Padded(s, n) == [i \in 1 .. n |-> IF i <= Len(s) THEN s[i] ELSE 0]

\* setup_cipher: a password is cut, or filled up, to the length of a key.
CipherKey(password) == Padded(password, BlockLength)

\* Variants named Operator_What are plausible slips of the code, kept to show
\* that the properties below tell them from the code.  No action uses them.
Blocks_Whole(text) == Len(text) \div BlockLength

\* The blocks a text fills, the last one perhaps in part.
Blocks(text) == (Len(text) + BlockLength - 1) \div BlockLength

Encrypt(text, password) ==
    [b \in 1 .. Blocks(text) |->
        [key |-> CipherKey(password), upTo |-> Padded(text, b * BlockLength)]]

\* What a block yields under another key than its own: bytes nobody can
\* foretell, which a value that is no byte stands for.
Noise == 256

\* gcry_cipher_decrypt, block by block.
Decrypted(blocks, password) ==
    [i \in 1 .. Len(blocks) * BlockLength |->
        LET block == blocks[(i - 1) \div BlockLength + 1]
        IN  IF block.key = CipherKey(password) THEN block.upTo[i] ELSE Noise]

\* g_strndup: up to the first 0, or to the end of the buffer if it has none.
UpToZero(bytes) ==
    [i \in {j \in DOMAIN bytes : \A k \in 1 .. j : bytes[k] # 0} |-> bytes[i]]

Decrypt(blocks, password) == UpToZero(Decrypted(blocks, password))

-----------------------------------------------------------------------------
\* What was written is what is read, whatever its length (also when it fills
\* its last block and no 0 ends it, and when there is nothing to write), with
\* every password that has the same key (do_aes_encrypt, do_aes_decrypt).
ReadsWhatWasWrittenIn(text, password, other) ==
    CipherKey(other) = CipherKey(password) =>
        Decrypt(Encrypt(text, password), other) = text
=============================================================================
