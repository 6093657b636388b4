--------------------------- MODULE DerivationPath ---------------------------
(***************************************************************************)
(* The path parser of generateKeyFromWallet: from the text of a            *)
(* derivation path, m/coin_type'/account'/address_index', to the three     *)
(* numbers that deriveArchEthicKeyPair is called with, and the seed it     *)
(* then derives from.  A path is a sequence of character codes; the loop   *)
(* of the code takes one step per character.                               *)
(***************************************************************************)
EXTENDS Integers, Sequences, FiniteSets

CONSTANTS
  Paths,         (* the texts of the service entries                        *)
  MaxLen,        (* the longest, in characters: 29 fit temp_der_path[30]    *)
  DeviceAccount, (* 0xffff, the account of the device's origin key          *)
  Word           (* 2^32, the range of uint32_t                             *)

ASSUME PathsOK ==
  /\ MaxLen \in Nat /\ MaxLen <= 29
  /\ Paths \subseteq {p \in Seq(0..255) : Len(p) <= MaxLen}
  /\ DeviceAccount \in Nat /\ 9 * MaxLen < DeviceAccount
  /\ Word \in Nat /\ DeviceAccount < Word

\* snprintf(temp_der_path, path_len + 1, "%s", ...): the text up to its first
\* zero, and then the zeros that the buffer was filled with.
Copied(text) ==
  [k \in 1..Len(text) |-> IF \E j \in 1..k : text[j] = 0 THEN 0 ELSE text[k]]

Copies == {Copied(text) : text \in Paths}

VARIABLES pc, path, offset, x, ix, coin_type, account, address_index

vars == <<pc, path, offset, x, ix, coin_type, account, address_index>>
parsed == <<coin_type, account, address_index>>

LetterM == 109
Solidus == 47
Digits  == 48..57

\* temp_der_path: zeros behind the path.
Char(k) == IF k < Len(path) THEN path[k + 1] ELSE 0
Digit   == Char(x) - 48

Init == /\ pc = "check"
        /\ path \in Copies
        /\ offset \in {0, 1}   \* address_index_offset
        /\ x = 2 /\ ix = 0
        /\ coin_type = 0 /\ account = 0 /\ address_index = 0

WellStarted == Char(0) = LetterM /\ Char(1) = Solidus

Check == /\ pc = "check"
         /\ pc' = IF WellStarted THEN "scan" ELSE "malformed"
         /\ UNCHANGED <<path, offset, x, ix, parsed>>

Scanning == pc = "scan" /\ x < Len(path)

NextChar == /\ x' = x + 1
            /\ UNCHANGED <<pc, path, offset>>

\* Mutant: the components counted one by one.
NextComponent == /\ Scanning /\ Char(x) = Solidus
                 /\ ix' = (ix + 1) % 256
                 /\ NextChar /\ UNCHANGED parsed

Separator == /\ Scanning /\ Char(x) = Solidus
             /\ ix' = (ix + 2) % 256
             /\ NextChar /\ UNCHANGED parsed

Append10(n) == (n * 10 + Digit) % Word

\* Mutant: the digits of the first component added up too.
ReadDigitSum ==
  /\ Scanning /\ Char(x) \in Digits
  /\ coin_type' = IF ix = 0 THEN (coin_type + Digit) % Word ELSE coin_type
  /\ account' = IF ix = 2 THEN (account + Digit) % Word ELSE account
  /\ NextChar /\ UNCHANGED <<ix, address_index>>

\* With ix = 2 the digit goes to the account, not to the index.
ReadDigit ==
  /\ Scanning /\ Char(x) \in Digits
  /\ coin_type' = IF ix = 0 THEN Append10(coin_type) ELSE coin_type
  /\ account' = IF ix = 1 THEN Append10(account)
                ELSE IF ix = 2 THEN (account + Digit) % Word ELSE account
  /\ address_index' = IF ix = 2 THEN (address_index * 10) % Word ELSE address_index
  /\ NextChar /\ UNCHANGED ix

Skip == /\ Scanning /\ Char(x) \notin Digits \cup {Solidus}
        /\ NextChar /\ UNCHANGED <<ix, parsed>>

\* Mutant: the offset subtracted.
FinishBelow == /\ pc = "scan" /\ x >= Len(path)
               /\ pc' = "done"
               /\ address_index' = address_index - offset
               /\ UNCHANGED <<path, offset, x, ix, coin_type, account>>

Finish == /\ pc = "scan" /\ x >= Len(path)
          /\ pc' = "done"
          /\ address_index' = (address_index + offset) % Word
          /\ UNCHANGED <<path, offset, x, ix, coin_type, account>>

Returned == pc \in {"done", "malformed"} /\ UNCHANGED vars

Next == Check \/ Separator \/ ReadDigit \/ Skip \/ Finish \/ Returned

Spec == Init /\ [][Next]_vars

\* deriveArchEthicKeyPair: the seed it derives from.
Seed == IF account = DeviceAccount THEN "device" ELSE "wallet"

-----------------------------------------------------------------------------
(* What a path means, read off its text.                                   *)

\* The component that the text has reached after its first n characters:
\* component k stands behind the k-th "/".
Component(text, n) == Cardinality({k \in 1..n : text[k] = Solidus})

DigitIn(text, n, comp) == text[n] \in Digits /\ Component(text, n) = comp

\* The digits of a component as far as the first n characters, read to a base.
\* To base 1 they are added up.
ReadUpTo(text, comp, base) ==
  LET value[n \in 0..Len(text)] ==
        IF n = 0 THEN 0
        ELSE IF DigitIn(text, n, comp) THEN value[n - 1] * base + (text[n] - 48)
        ELSE value[n - 1]
  IN  value

Numeral(comp)  == ReadUpTo(path, comp, 10)[Len(path)]
DigitSum(comp) == ReadUpTo(path, comp, 1)[Len(path)]

-----------------------------------------------------------------------------
(* Properties.                                                             *)

\* The types of the parser's locals.
TypeOK == /\ pc \in {"check", "scan", "done", "malformed"}
          /\ path \in Copies /\ offset \in {0, 1}
          /\ x \in Nat /\ ix \in 0..255
          /\ coin_type \in Nat /\ account \in Nat /\ address_index \in Nat

\* A key of an on-chain wallet is derived from that wallet's seed: no path of
\* a service, whatever its text, selects the seed of the device, which
\* deriveArchEthicKeyPair takes for the account 0xffff.
WalletSeedUsed == pc = "done" => Seed = "wallet"

\* What the loop computes, read off the text: the first component in decimal,
\* the sum of the digits of the second, and the caller's offset.
ParsedAs ==
  pc = "done" => /\ coin_type = Numeral(1) % Word
                 /\ account = DigitSum(2) % Word
                 /\ address_index = offset

\* What the comments say of the three components.
ComponentsAsDocumented ==
  pc = "done" => /\ coin_type = Numeral(1) % Word
                 /\ account = Numeral(2) % Word
                 /\ address_index = (Numeral(3) + offset) % Word
=============================================================================
