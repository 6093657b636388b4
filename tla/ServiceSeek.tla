----------------------------- MODULE ServiceSeek -----------------------------
(***************************************************************************)
(* What getDerivationPath finds, as its callers use it: a position in the  *)
(* list of services of a wallet.  ArchethicApp takes it from here, and     *)
(* OnchainWallet, the walk over the bytes, is shown to compute it.         *)
(***************************************************************************)
EXTENDS Integers

CONSTANTS
  Wallets,    (* on-chain wallets a host can send, encrypted                *)
  Total,      (* Total[w]: number of services wallet w lists                *)
  WalletLen   (* WalletLen[w]: length of the encoding of w, in bytes        *)

TooShort(w, s) == WalletLen[w] < 6 * s + 39

\* Mutant: the services counted from 1.
SeekFromOne(w, s) == IF TooShort(w, s) \/ Total[w] < s THEN 0 ELSE s

\* getDerivationPath: the position of the entry it seeks to, or the 0 of the
\* caller's seek_bytes when it returns early.  Total[w] + 1 is the wallet's end.
SeekEntry(w, s) == IF TooShort(w, s) \/ Total[w] < s THEN 0 ELSE s + 1
=============================================================================
