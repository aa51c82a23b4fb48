--------------------------------- MODULE Aes ---------------------------------
(***************************************************************************)
(* AES as fc uses it (crypto/src/aes.cpp): a stream through aes_encoder    *)
(* and aes_decoder, and a file with aes_save and aes_load.                 *)
(*                                                                         *)
(* EVP is external: a cipher block is the sequence of the plain blocks up  *)
(* to it (CBC), and without padding an update keeps what does not fill a   *)
(* block for the next one.  A block has two units of plain text.           *)
(***************************************************************************)
EXTENDS Integers, Sequences

CONSTANTS Key, Plain,   \* of files
          Piece,        \* pieces of a stream: sequences of units
          MaxUnits      \* bound of the model: units that are encoded

VARIABLES held,      \* what the encoder's EVP keeps
          chained,   \* the blocks it has encrypted
          sent,      \* cipher blocks on their way
          unchained, \* the blocks the decoder has decrypted
          threw,     \* history: encode did
          accepted,  \* history: the units of the calls that returned
          file,      \* a set: <<check, cipher>>, or empty: there is no file
          saved,     \* history: a set with what the last save saved, or was saving
          loaded     \* a set: what aes_load answered

stream == <<held, chained, sent, unchained, threw, accepted>>
disk == <<file, saved, loaded>>
vars == <<stream, disk>>

Init ==
  /\ held = <<>> /\ chained = <<>> /\ sent = <<>> /\ unchained = <<>>
  /\ threw = FALSE /\ accepted = <<>>
  /\ file = {} /\ saved = {} /\ loaded = {}

-----------------------------------------------------------------------------
Joined(blocks) == [i \in 1..(2 * Len(blocks)) |-> blocks[(i + 1) \div 2][((i + 1) % 2) + 1]]

\* aes_encoder::encode: whole blocks go out, and a length that differs throws
\* when the context has changed already
Encode(piece) ==
  LET all == held \o piece
      full == Len(all) \div 2
      blocks == [i \in 1..full |-> SubSeq(all, 2 * i - 1, 2 * i)]
  IN  /\ 2 * Len(chained) + Len(all) <= MaxUnits
      /\ held' = SubSeq(all, 2 * full + 1, Len(all)) /\ chained' = chained \o blocks
      /\ IF 2 * full = Len(piece)
           THEN /\ accepted' = accepted \o piece /\ UNCHANGED threw
                /\ sent' = sent \o [i \in 1..full |-> chained \o SubSeq(blocks, 1, i)]
           ELSE threw' = TRUE /\ UNCHANGED <<accepted, sent>>
      /\ UNCHANGED <<unchained, disk>>

\* aes_decoder::decode of k blocks; what another chain encrypted is garbage
Decode(k) ==
  LET step(s, c) == Append(s, IF Len(c) > 0 /\ SubSeq(c, 1, Len(c) - 1) = s THEN c[Len(c)]
                              ELSE <<"garbage", "garbage">>)
  IN  /\ k <= Len(sent) /\ k \in 1..2
      /\ unchained' = IF k = 1 THEN step(unchained, sent[1])
                      ELSE step(step(unchained, sent[1]), sent[2])
      /\ sent' = SubSeq(sent, k + 1, Len(sent))
      /\ UNCHANGED <<held, chained, threw, accepted, disk>>

-----------------------------------------------------------------------------
\* aes_encrypt with padding, and the sum of key and cipher
Cipher(key, plain) == [key |-> key, plain |-> plain]
Deciphered(key, cipher) == IF cipher.key = key THEN cipher.plain ELSE "garbage"
Check(key, cipher) == [sum |-> key, of |-> cipher]

Save(key, plain) ==
  /\ file' = {<<Check(key, Cipher(key, plain)), Cipher(key, plain)>>}
  /\ saved' = {<<key, plain>>} /\ loaded' = {}
  /\ UNCHANGED stream

\* The file is truncated, then the sum is written, then the cipher: a crash
\* leaves it empty, with a part of the sum, with the sum alone, or with a part
\* of the cipher too; unpack leaves what is not there as it was.
Torn == [key |-> "torn", plain |-> "garbage"]
TornSum == [sum |-> "torn", of |-> Torn]
CrashInSave(key, plain) ==
  /\ file' \in {{<<TornSum, Torn>>}, {<<Check(key, Cipher(key, plain)), Torn>>}}
  /\ saved' = {<<key, plain>>} /\ loaded' = {}
  /\ UNCHANGED stream

\* Something else writes over the cipher.
Damage(key, plain) ==
  /\ \E f \in file : file' = {<<f[1], Cipher(key, plain)>>}
  /\ UNCHANGED <<saved, loaded, stream>>

\* A variant whose sum is of the cipher alone.
LoadedUnkeyed(key, f) == IF f[1].of = f[2] THEN {<<key, Deciphered(key, f[2])>>} ELSE {}
Loaded(key, f) == IF f[1] = Check(key, f[2]) THEN {<<key, Deciphered(key, f[2])>>} ELSE {}
Load(key) ==
  /\ loaded' = UNION {Loaded(key, f) : f \in file}
  /\ UNCHANGED <<file, saved, stream>>

Next ==
  \/ \E piece \in Piece : Encode(piece)
  \/ \E k \in 1..2 : Decode(k)
  \/ \E key \in Key, plain \in Plain :
       Save(key, plain) \/ CrashInSave(key, plain) \/ Damage(key, plain)
  \/ \E key \in Key : Load(key)

Spec == Init /\ [][Next]_vars

-----------------------------------------------------------------------------
(* The decoder gives what the encoder accepted, in order, as long as no    *)
(* call of the encoder threw; and what a file gives is what was saved last *)
(* and with that key, or was being saved when the program crashed, whole,  *)
(* whatever damages the file met.                                          *)
DecryptsWhatWasEncrypted ==
  /\ ~threw => Joined(unchained) = SubSeq(accepted, 1, 2 * Len(unchained))
  /\ loaded \subseteq saved
=============================================================================
