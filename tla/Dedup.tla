------------------------------- MODULE Dedup -------------------------------
(***************************************************************************)
(* The key of deduplication (domain/dedup.py): two statements that overlap *)
(* print an operation in manners of their own, and the key is to be the    *)
(* same.                                                                   *)
(*                                                                         *)
(* A text is a sequence of characters; the ones here stand for their kinds *)
(* in Unicode.  SHA-256 is taken to be injective: the digest is the tuple  *)
(* it is computed of.  Times count seconds.                                *)
(***************************************************************************)
EXTENDS Integers, Sequences, SequencesExt

\* \w: letters in both cases, the sign that stands for two of them, digits.
Letters == {"n", "o", "N", "O"}
Digits == {"4", "5"}

\* \s: the space, and the one that does not break.
Blanks == {"space", "nbsp"}

Characters == Letters \cup Digits \cup Blanks \cup {"numero", "comma"}

\* unicodedata.normalize("NFKC"), character by character.
Nfkc(char) ==
    CASE char = "numero" -> <<"N", "o">>
      [] char = "nbsp"   -> <<"space">>
      [] OTHER           -> <<char>>

Lower(text) ==
    [i \in DOMAIN text |-> CASE text[i] = "N" -> "n"
                             [] text[i] = "O" -> "o"
                             [] OTHER -> text[i]]

\* str.strip()
Strip(text) ==
    LET shown == {i \in DOMAIN text : text[i] \notin Blanks}
    IN  IF shown = {} THEN <<>> ELSE SubSeq(text, Min(shown), Max(shown))

\* What is neither \w nor \s becomes a space.
NoiseToBlank(text) ==
    [i \in DOMAIN text |-> IF text[i] \in Letters \cup Digits \cup Blanks THEN text[i] ELSE "space"]

\* A run of blanks becomes one.
CollapseBlanks(text) ==
    LET upTo[n \in 0 .. Len(text)] ==
            IF n = 0 THEN <<>>
            ELSE IF n > 1 /\ text[n] \in Blanks /\ text[n - 1] \in Blanks THEN upTo[n - 1]
            ELSE Append(upTo[n - 1], text[n])
    IN  upTo[Len(text)]

\* A bug of normalize_description: punctuation stays.
NormalizeBlanksOnly(raw) ==
    Lower(Strip(CollapseBlanks(FlattenSeq([i \in DOMAIN raw |-> Nfkc(raw[i])]))))

\* normalize_description
NormalizeDescription(raw) ==
    Lower(Strip(CollapseBlanks(NoiseToBlank(FlattenSeq([i \in DOMAIN raw |-> Nfkc(raw[i])])))))

\* booked_at without seconds.
Minute(at) == at \div 60

\* dedup_hash.  The parsers hand currencies over in upper case, which upper()
\* leaves alone.
DedupHash(accountRef, at, amount, currency, description) ==
    << Lower(Strip(accountRef)), Minute(at), amount, currency,
       NormalizeDescription(description) >>

----------------------------------------------------------------------------
\* What a reader takes a description to say: its words, in any case.
Spoken == Letters \cup Digits \cup {"numero"}

Spelled(char) == IF char = "numero" THEN <<"n", "o">> ELSE Lower(<<char>>)

Words(text) ==
    LET upTo[n \in 0 .. Len(text)] ==
            IF n = 0 THEN <<>>
            ELSE IF text[n] \notin Spoken THEN upTo[n - 1]
            ELSE IF n > 1 /\ text[n - 1] \in Spoken
            THEN Append(Front(upTo[n - 1]), Last(upTo[n - 1]) \o Spelled(text[n]))
            ELSE Append(upTo[n - 1], Spelled(text[n]))
    IN  upTo[Len(text)]

=============================================================================
