--------------------------- MODULE OnchainWallet ---------------------------
(***************************************************************************)
(* getDerivationPath, byte by byte: the walk over an encoded on-chain      *)
(* wallet to the entry of a service.  ArchethicApp takes its result as     *)
(* SeekEntry of ServiceSeek; SeeksEntry says why it may.                   *)
(*                                                                         *)
(* A wallet is encoded as                                                  *)
(*   version (4), seed length (1), seed, number of services (1),           *)
(* and for each service                                                    *)
(*   name length (1), name, path length (1), path, curve (1), hash (1).    *)
(***************************************************************************)
EXTENDS Integers

CONSTANTS
  Wallets,
  Memory,  (* Memory[w][k]: the k-th byte from the start of the buffer that *)
           (* holds w: its encoding, and then whatever memory has           *)
  Length,  (* Length[w]: the bytes of the encoding                          *)
  Total,   (* Total[w]: the number of services                              *)
  Start    (* Start[w][k]: where the k-th service starts, from 1; of the    *)
           (* one after the last: where the encoding ends                   *)

Byte == 0..255

\* The position of the path length of the k-th service, and of its curve.
PathAt(w, k)  == Start[w][k] + Memory[w][Start[w][k]] + 1
CurveAt(w, k) == PathAt(w, k) + Memory[w][PathAt(w, k)] + 1

\* What the encoder guarantees: the seed has 32 bytes, the services follow
\* one another and each has 6 bytes or more.
IsMemory(w) == \A k \in 0..1023 : Memory[w][k] \in Byte
IsHeader(w) == /\ Length[w] \in Nat /\ Length[w] <= 200 /\ Total[w] \in Byte
               /\ Memory[w][4] = 32 /\ Memory[w][37] = Total[w]
               /\ Start[w][1] = 38
AreServices(w) == /\ \A k \in 1..(Total[w] + 1) : Start[w][k] \in Nat /\ Start[w][k] <= Length[w]
                  /\ \A k \in 1..Total[w] : Start[w][k + 1] = CurveAt(w, k) + 2
                  /\ Start[w][Total[w] + 1] = Length[w]
                  /\ 38 + 6 * Total[w] <= Length[w]

ASSUME LayoutOK ==
  \A w \in Wallets : IsMemory(w) /\ IsHeader(w) /\ AreServices(w)

VARIABLES pc, wallet, service_index, c, seek_bytes_l, seek_bytes

vars  == <<pc, wallet, service_index, c, seek_bytes_l, seek_bytes>>
call  == <<wallet, service_index>>

At(k) == Memory[wallet][k]

Init == /\ pc = "call"
        /\ wallet \in Wallets /\ service_index \in Byte
        /\ c = 0 /\ seek_bytes_l = 0
        /\ seek_bytes = 0   \* in the caller

\* Mutant: a service is taken to have a name of three characters.
TooShortForNames == Length[wallet] < 19 * (service_index + 1) + 38

TooShort == Length[wallet] < 6 * service_index + 39

Refuse == /\ pc = "call" /\ TooShort
          /\ pc' = "refused"
          /\ UNCHANGED <<call, c, seek_bytes_l, seek_bytes>>

\* Mutant: the number of services is not compared with the index.
ReadHeaderOnly ==
  /\ pc = "call" /\ ~TooShort
  /\ pc' = "seek"
  /\ seek_bytes_l' = 4 + 1 + At(4) + 1
  /\ UNCHANGED <<call, c, seek_bytes>>

\* Mutant: the index just past the end refused.
ReadHeaderStrict ==
  LET services_at == 4 + 1 + At(4)
  IN  /\ pc = "call" /\ ~TooShort
      /\ pc' = IF At(services_at) <= service_index THEN "refused" ELSE "seek"
      /\ seek_bytes_l' = services_at + 1
      /\ UNCHANGED <<call, c, seek_bytes>>

ReadHeader ==
  LET services_at == 4 + 1 + At(4)
  IN  /\ pc = "call" /\ ~TooShort
      /\ pc' = IF At(services_at) < service_index THEN "refused" ELSE "seek"
      /\ seek_bytes_l' = services_at + 1
      /\ UNCHANGED <<call, c, seek_bytes>>

\* Where the service at seek_bytes_l has its path length.
PathLenAt == seek_bytes_l + At(seek_bytes_l) + 1

\* Mutant: the hash type is not stepped over.
SkipToHash == /\ pc = "seek" /\ c < service_index
              /\ seek_bytes_l' = PathLenAt + At(PathLenAt) + 1 + 1
              /\ c' = c + 1
              /\ UNCHANGED <<pc, call, seek_bytes>>

\* Mutant: the service of the index itself can be skipped.
SkipUpToIndex == /\ pc = "seek" /\ c <= service_index
                 /\ seek_bytes_l' = PathLenAt + At(PathLenAt) + 1 + 1 + 1
                 /\ c' = c + 1
                 /\ UNCHANGED <<pc, call, seek_bytes>>

SkipService == /\ pc = "seek" /\ c < service_index
               /\ seek_bytes_l' = PathLenAt + At(PathLenAt) + 1 + 1 + 1
               /\ c' = c + 1
               /\ UNCHANGED <<pc, call, seek_bytes>>

TakeService == /\ pc = "seek" /\ c = service_index
               /\ pc' = "found"
               /\ seek_bytes_l' = PathLenAt
               /\ seek_bytes' = PathLenAt
               /\ UNCHANGED <<call, c>>

Returned == pc \in {"refused", "found"} /\ UNCHANGED vars

Next == Refuse \/ ReadHeader \/ SkipService \/ TakeService \/ Returned

Spec == Init /\ [][Next]_vars

-----------------------------------------------------------------------------
(* Properties.                                                             *)

InRange == service_index < Total[wallet]

\* The types of the arguments and locals.
TypeOK == /\ pc \in {"call", "seek", "refused", "found"}
          /\ wallet \in Wallets /\ service_index \in Byte
          /\ c \in 0..service_index
          /\ seek_bytes_l \in Nat /\ seek_bytes \in Nat

\* For a service that the wallet has, the walk ends at that service's path
\* length: the path shown and the key derived there are the service's.
FindsService ==
  pc = "found" /\ InRange => seek_bytes = PathAt(wallet, service_index + 1)

\* The length test at the start refuses no service that the wallet has.
AdmitsServices == pc = "refused" => ~InRange

\* An index that the wallet does not have, and that is not refused, is the one
\* just past the end: the entry is then read from where the encoding ends.
PastEndReadsBeyond ==
  pc = "found" /\ ~InRange => /\ service_index = Total[wallet]
                              /\ seek_bytes > Length[wallet]

\* Where an entry of a wallet has its path length, with the start of the
\* wallet for no entry.
PositionOf(w, entry) == IF entry = 0 THEN 0 ELSE PathAt(w, entry)

\* The bytes, walked over, give what the rest of the application takes the
\* walk for, for every index that a command can carry.
Seek == INSTANCE ServiceSeek WITH WalletLen <- Length
SeeksEntry ==
  pc \in {"refused", "found"} =>
    seek_bytes = PositionOf(wallet, Seek!SeekEntry(wallet, service_index))

\* On the way to a service that the wallet has, the entries stepped over and
\* the entry found are inside the encoding, with their paths and curves.
ReadsEncoding ==
  pc \in {"seek", "found"} /\ InRange =>
    LET entry_at == IF pc = "seek" THEN PathLenAt ELSE seek_bytes
    IN  entry_at + At(entry_at) + 1 < Length[wallet]
=============================================================================
