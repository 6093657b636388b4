# A TLA+ model of the Archethic Ledger application

The Archethic application for Ledger devices (`src/src`, C) derives keys and
addresses from on-chain wallets that a host sends encrypted, and signs UCO
transfers with them, after the user has reviewed each request on the device.
This directory holds TLA+ modules that model its behaviour, TLC configurations
that check them on small instances, and proofs checked by TLAPS.

## The system

One thread runs everything. `main` boots the I/O and the display, shows the
menu and calls `archethic_main`, whose loop calls `io_exchange`: it sends the
answer left from the previous turn, handles button and status events until a
command (an APDU) arrives, and returns it. A handler looked up by the
instruction byte then runs to its end. It answers at once, throws, or sets
`IO_ASYNCH_REPLY`, starts a review flow and returns; the answer is then sent by
the flow's approve or reject callback, from inside the next `io_exchange`.

| component | state it keeps | operations | interacts through |
|---|---|---|---|
| boot and APDU loop, `main.c` | `rx`, `tx`, `flags` | boot, exchange, dispatch, exceptions to status words, reset | exceptions, the APDU buffer, `flags` passed to handlers |
| `getVersion.c` | none | answers the version | the APDU buffer |
| `getPublicKey.c` | callback, `publicKey` and its text | derive the origin key, review, answer | globals read later by the callback |
| `getAddress.c` | callback, path text, address, wallet buffer | ECDH, decrypt, seek, derive, review, answer | the same |
| `signHash.c` | callback, four texts, `g_tx`, wallet buffer | parse, ECDH, decrypt, seek, derive the sender, hash, review, sign | the same |
| review flows and `ui/menu.c` | the running flow and step, `G_ux.stack_count` | buttons, menu, about, quit | callbacks run inside `io_exchange` |
| wallet functions, `archethic.c` | the caller's buffers | decrypt, seek to a service, parse a path, derive, sign, hash | pointers to the handlers' globals |
| key derivation, `bip44.c` | none | SLIP-10, BIP-32, Ed25519 trees, byte order | return value, exceptions |
| number formatting, `common/format.c` | none | amounts and hex as text | buffers |

What is hard here is not parallelism but interleaving inside one thread: a
command, the user's buttons, a review started earlier, a USB power loss and an
exception can follow one another in any order, over globals that no handler
clears. Exceptions leave a handler in the middle; a review then stays on the
display or never comes, `flags` keeps its bit, and buffers keep what was
written. Wallet buffers are written over one another and read by length bytes
that are trusted.

What makes each component correct:

- the loop: one answer to each command, none lost but with the application;
- the reviews: what is shown belongs to the command being held, is what will be
  hashed and signed, and was all displayed before an approval can be given;
- the answers: address, sender and signature belong to the service the host
  asked for, in the wallet it sent;
- the wallet walk: it finds the service's entry and reads nothing else;
- the path parser: it yields the path's components, and never the device's seed;
- the byte order functions: they reverse the array, and stay inside it;
- the split of a command: every field is read from where the client put it;
- the amount: its text is the number that is hashed, and it always fits;
- the transaction: its bytes are those of one transfer;
- the key derivation: the keys are those of SLIP-0010, usable, and found.

## Modules

| module | models | depends on |
|---|---|---|
| `CommandProtocol` | abstract: what a host is promised about its commands | |
| `ServiceSeek` | what `getDerivationPath` finds, as its callers use it: a position | |
| `ArchethicApp` | the session: `main.c`, the four handlers, reviews, menu, wallets as values | `ServiceSeek`, `CommandProtocol` (refinement) |
| `OnchainWallet` | `getDerivationPath` byte by byte | `ServiceSeek` (what it computes) |
| `DerivationPath` | the path parser of `generateKeyFromWallet`, the choice of the seed | |
| `ByteOrder` | `be2le` / `le2be` | |
| `AmountText` | `format_u64` and `format_fpu64` | |
| `TransferRequest` | the data of a command at the offsets where the handlers read it, and the bytes that `getTransactionHash` hashes | `AmountText` (its actions are steps of the handler) |
| `KeyBytes` | bytes, halves of a hash, curves, and what is assumed of the SDK's functions | |
| `Slip10` | abstract: the master and child keys of SLIP-0010 | `KeyBytes` |
| `KeyTree` | `deriveArchEthicKeyPair`, `expand_seed*`, `hdw_slip10`, `hdw_bip32` | `KeyBytes`, `Slip10` (refinement) |
| `MCArchethicApp`, `MCOnchainWallet`, `MCDerivationPath`, `MCTransferRequest`, `MCKeyTree` | small instances for TLC | the module named |
| `ArchethicAppProofs`, `OnchainWalletProofs`, `DerivationPathProofs`, `ByteOrderProofs`, `AmountTextProofs`, `TransferRequestProofs`, `KeyTreeProofs` | theorems | the module named |
| `Arithmetic` | lemmas on induction, recursion and division, for `AmountTextProofs` and `DerivationPathProofs` | |

### ArchethicApp

`pc` says where the thread is: `boot`, at the top of the loop, `wait` inside
`io_exchange`, `dispatch` with a command, or `off`. `asynch` is the
`IO_ASYNCH_REPLY` bit of `flags`; `caught` is the status word that
`CATCH_OTHER` left in the buffer (so `tx` is 2), or 0. `pending` and `reply`
are the transport's side: the command it holds and the answer it last sent.
`screen`, `seen` and `stackCount` are the display. The other variables are the
handlers' globals, by file.

A handler is one action, as it runs without waiting; each of its ways to end (a
throw at each call that may, an answer, a review) is a disjunct, with exactly
the globals written up to there. `Throw` includes `CATCH_OTHER`. A callback is
one action with its transmission and `ui_menu_main`.

Data is abstracted to what the properties tell apart. A receiver is a pair
`[head, tail]`, as the text `g_addr[70]` has room for the first 34 bytes only;
`tail` is `Blank` for the 34-byte form. A wallet is a value with a number of
services and a length. A wallet *buffer* keeps the wallet it `holds` and the
service entry that the bytes `beyond` its end spell, if a longer wallet left
one there: `Decrypted` chooses among what can be left, so every overlap of two
encodings is covered. `performECDSA` writes the public key and then the
signature over the wallet it signs for. After a signature the buffer holds no
wallet; when `cx_ecdsa_sign` throws, the curve, the origin and the public key
are written, bytes 0 to 66 (`Written`), and the buffer is no longer `intact`:
the wallet's length and the entries behind byte 66 are still its own (`Kept`, from
`PathAt`, the place of an entry's path), but the seed is not. What is then read
as seed, or as a path within reach of the public key, is `Scrap`: whether its
bytes spell a path, and on which curve, is left open. The same goes for the bytes
of a public key or a signature beyond the end of a later wallet (`ScrapEntry`).
With nothing derived, only curve and origin are written, over two bytes of its version.

A key is the seed, the service entry its path and curve
were read from, and the index offset; `NoKey` stands for the uninitialised
structures that are used when `generateKeyFromWallet` returns early. Whether
two entries give the same key is the subject of `DerivationPath`.

Where the SDK's code is not in the repository, it is modelled from its use here:

- the transport takes no command while it holds an unanswered one;
- `io_exchange` with `IO_ASYNCH_REPLY` sends nothing and keeps the command;
  without it, it sends the bytes it is given and frees the transport;
- `io_exchange_with_code` (`IO_RETURN_AFTER_TX`) sends in one step: button
  events during the transmission are left out;
- a paged step is left only after its last page, so a displayed step was shown
  whole; flows wrap around only with `FLOW_LOOP`;
- `cx_ecdsa_sign` throws `INVALID_PARAMETER` for an Ed25519 key, and
  `cx_ecdh` for a point that is not on the curve; a key derivation may throw
  any exception of `Faults`, or none;
- the power-loss event throws only while `G_io_apdu_media` is USB HID, that is,
  while a command is held.

A command fits the 255 bytes that its length byte counts, which `Room` says of
the wallet of an address or a sign command.

Opening the application again after it has exited is a new behaviour from `Init`.

### OnchainWallet, ServiceSeek, DerivationPath, ByteOrder

`OnchainWallet` has the memory from the start of the wallet buffer on as a
constant of bytes; its assumption `LayoutOK` is what the encoder
(`tests/manual_testing/wallet_encoder_new.ex`) guarantees: a 32-byte seed,
services one after the other, each of at least the 6 bytes that the comment in
`getDerivationPath` counts on. One turn of the loop is one action.

`ServiceSeek` is where the session and the bytes meet. `ArchethicApp` takes the
position of an entry from `SeekEntry`; `OnchainWallet` has an instance of the
same module with the lengths of its encodings, and `SeeksEntry` says that for
every index the walk ends where `SeekEntry` says: at the asked service, at
the end of the encoding for the index just past the services, at position 0
when it refuses.

`DerivationPath` takes one step per character, of the text as `snprintf` has
copied it (`Copied`): up to its first zero, with zeros behind. `Word` is the range of
`uint32_t` (2^32 in the code), `MaxLen` the longest path (29 characters fit
`temp_der_path`), `DeviceAccount` is `0xffff`. A longer path would write past
the parser's buffer, which is outside the model. The branch for `ix == 1` is
kept in `ReadDigit`; it is never taken.

`ByteOrder` takes one step per turn of the loop, for arrays of even length, the
only ones the code has (32 bytes).

### AmountText, TransferRequest

`AmountText` takes one step per turn of the two loops of `format_u64`, and one
for what `format_fpu64` does with the digits. Characters are ASCII codes,
`MaxDigits` is 20 in the code, `BufLen` 21 and `TextLen` 30; both tests that
could refuse an amount are kept.

`TransferRequest` is `handleSignHash` and the start of `handleGetAddress` over
the bytes of a command. `at` and `left` are `dataBuffer` and `dataLength`, with
their widths: `left` wraps at 2^16 and is a byte for `decryptWallet`. The hash
is represented by what is hashed, the plain wallet by its cipher bytes (CTR mode
keeps length and order), and `Genuine` has the envelopes whose tag verifies. The
formatter's actions are steps of the handler, on the same variables. The module
is what allows `ArchethicApp` to have commands split into their fields, and the
receiver, the amount and the hash as values. `receiveAddr` keeps the bytes of an
earlier, longer receiver.

The commands are those of `tests/archethic_client` (`IsRequest`): service,
receiver, amount, envelope and wallet; a receiver's hash type is one of the four
that the comments of `handleSignHash` name, with the digest it has.

### KeyTree, Slip10

`Slip10` is the standard that `bip44.c:461` names: a derivation is a sequence of
attempts, each with data of its own, and an unusable result is followed by the
standard's next attempt. `KeyTree` is the code: one buffer `tmp` that is the
HMAC's input, then its output, then the sum, then the input of the next
attempt; nothing is cleared between turns or calls. A turn of each loop is one
action. `Compressed` stands for the public key of an unhardened child, which
the application never asks for. HMAC, order and sum are constants of which only
the types are assumed, and that a sum is below the order.

The refinement reads SLIP-0010's data out of `tmp`: `SlipData` is `hmacData`
during a turn, so a byte of an earlier attempt that stayed in the input would
be a step that SLIP-0010 does not have. `memcpy(tmp + 1, tmp + 32, 32)` overlaps
in one byte, the first read and the last written. C leaves this undefined;
`TaggedOne` assumes a copy that reads that byte before it writes it, as one that
runs forward does. Its mutant copies backward, and the keys are then others.

## Runs

| run | instance | shows |
|---|---|---|
| `session` | two wallets (1 and 2 services), 13 commands with bad envelopes and bad headers; no Ed25519 service, no derivation fault | `TypeOK`; `AnswersFromOwnService`: address, sender and signing key are the asked service's; `ShownPathIsOwn`: so is the path on the display; `HeldIsReviewed`: a command that is held has its review on the display; `CaughtStatusIsSent`: an exception's status word is sent by the next exchange |
| `any_index` | service indices up to past the end and one far off, an Ed25519 service with its path behind byte 66, derivations that throw 2 at any call | the review invariants, `SignsWhatWasAsked`, `OnlyOwnSeed`, `ConsentBeforeAnswer`, `LostOnlyWithStatus`: a command can become unanswerable in one way only, and `ImplementsProtocol` |
| `liveness` | one command of each kind, an Ed25519 service with its path within reach of the public key | `EveryCommandEnds` under fairness; `NoOtherService`, with approvals repeated after a refused signature |
| `onchain_wallet` | 258 wallets of one to three services with names of 0, 3 or 6 bytes and paths of 12 or 15; all 256 indices | `FindsService`, `AdmitsServices`, `PastEndReadsBeyond`, `SeeksEntry`, and `ReadsEncoding`: nothing beyond the wallet is read on the way to a service that it has |
| `derivation_path` | every path of up to five characters out of `/ ' 1 9` behind `m/`, 125 formed ones, malformed ones, one with a zero in it; `Word` 1000 so that sums wrap | `WalletSeedUsed`, `ParsedAs` |
| `transfer` | 11 commands: amounts of 1, 2, 8 and 9 digits, receivers of both lengths, two that differ in the last 32 bytes only, wallets of four lengths, good and bad tags; two senders | `FieldsAsSent`, `AlwaysFits`, `ShowsAmount`, `AmountShownIsHashed`, `TransactionIsOneTransfer`, `BadDecodeIsBadTag` |
| `key_tree` | three curves, four seeds, eight paths; bytes of one bit, halves of three, indices of two; an HMAC that has to be repeated often, up to several times in a row | `NeverThrows`, `KeyUsable`, `ImplementsSlip10`, and `DerivationEnds` under fairness |
| `byte_order` | all arrays of six bytes out of three values | `InArray`, `Reversed` |

Four runs show where the code departs from what it says of itself:

| run | what happens |
|---|---|
| `swallowed_error` | `*flags \|= IO_ASYNCH_REPLY` comes before a derivation that may throw. The status word that `CATCH_OTHER` writes is then not sent, and no review is on the display: the command is never answered, unless the user quits or the host is unplugged. |
| `past_end` | `total_services < service_index` lets the index equal to the number of services pass. The bytes beyond the wallet are read as a service; after a longer wallet they can be one of its services, whose path is shown and whose index is used with this wallet's seed. |
| `ed25519_retry` | Approving a transfer of an Ed25519 service throws in `cx_ecdsa_sign`, after the public key has been written over the start of the wallet, the path included. The review is still on the display; approving again signs with an uninitialised key, or with one made of the public key's bytes, and answers 0x9000. |
| `path_components` | `ix += 2` for each `/`: the account is the sum of its digits and the index is ignored. `m/650'/1'/0'` and `m/650'/10'/5'` give the same key. |

Repairing the last one has a consequence that the mutant of `WalletSeedUsed`
shows: with components counted one by one, a path with the account 65535 would
be derived from the device's seed. That it cannot is due to the digit sum.

### Bounds, and why they are enough

Two wallets of different lengths are the fewest for which one can leave bytes
beyond the other's end; two services tell the first from the last, and the
index 2 of w2 in the seek from its end. Two receivers, one of each length, and
two amounts make every stale copy visible, as a command can differ from the
one before in all its fields. There is no bound on the number of commands or
buttons: the state spaces are finite and explored whole. Lists of commands stay
short because handlers treat commands of one kind alike; what matters is which
command follows which, and all orders are covered.

In `transfer` all lengths and offsets are the code's. TLC's integers have 32
bits, so amounts have at most nine digits, and the buffers are as tight for nine
as the code's are for twenty: `buffer` has room for the digits and the
final `Nul`, `dst` the length that its test asks for. One digit more than there are decimals is
enough to move the point; that it holds for twenty is proved. In `key_tree` a
byte has one bit, as nothing in the derivation depends on a byte's range or on
the lengths, but that an index is shorter than a half; every kind of refusal
(zero, not below the order, a zero sum) comes up, some several times in a row.

### Fairness

`Thread` is weakly fair: the processor runs until it waits in `io_exchange`.
The user is assumed to be finite in indecision: who sees a step of a review
again and again pages on (`PageOn`, one condition per step, strong because the
user may page back and forth), and who sees the last step again and again
presses it (`Reject`, strong for the same reason). Nothing is assumed of the
host, of approvals, or of leaving the application. With less, a review may stay
on the display for ever, and the command with it: the code has no timeout.

`KeyTree!Work` is weakly fair: one thread runs the derivation and nothing in it
waits. That the repeated attempts end also needs an HMAC that does not fail for
ever, as `MCHmac` does not; SLIP-0010 relies on the same.

## Proofs

The theorems hold for all constants that satisfy the named assumptions
`ConstantsOK`, `PathAtOK`, `LayoutOK`, `PathsOK`, `HalfOK`, `SizesOK`, `ValuesOK`,
`RequestsOK`, `BytesOK` and `FunctionsOK`: any wallets, commands, exceptions and
curves, any encoded wallet, any path of up to the 29 characters that fit `temp_der_path`, any even length, any
amounts of up to `MaxDigits` digits, any command of the client, any HMAC.

- `TypeCorrect`: the session's type invariant. `PathTypes`, `WalkTypes`,
  `ArrayTypes`, `RequestTypes`, `KeyTypes`: those of the other modules.
- `SessionSafe`: the inductive invariant `IInv`. `ReviewIsOfPending` alone is
  not inductive: that a new command cannot meet an old review needs that a
  command is received only when none is held, that at the top of the loop one is
  still held exactly if its answer is to come, and that `flags` is clear at
  dispatch. `LoopConsistent` says this, and that every step of a review before
  the current one was displayed. `TextMatchesHash`, `ShownPathIsUsed` and
  `SignsWhatWasAsked` then follow step by step from `ReviewIsOfPending`.
- `ReviewOfPending`, `ReviewShowsTransfer`, `PathShownIsUsed`, `SignedAsAsked`:
  its parts, as theorems of `Spec`.
- `Consent`: the action property `ConsentBeforeAnswer`. Every step but an
  approval leaves `reply` without 0x9000 for a reviewed command, and at an
  approval the invariant gives what was displayed.
- `ConsistentLoop`: the part of `IInv` about the loop, as a theorem.
- `OwnSeed`: without any hypothesis, no answer is made with the seed of another
  wallet than the command's (a signature at worst with none, or with `Scrap`). `ReviewSteps` says what a step can do to a review
  about a wallet: end it, begin one from the wallet just decrypted, or keep it, and
  then only the start of the wallet behind it can be written over, by a refused
  signature. `AnswerSteps` does the same for answers. The next three build on the two.
- `NeverAnotherService`: `HostAsks` says that the host asks for services its
  wallets have and that `getDerivationPath` does not refuse. The keys behind a review
  (`OwnReview`) are then those of the entry asked for, whatever throws; the
  buffer that the signing key comes from still holds the command's wallet, and its
  start is intact unless a signature with an Ed25519 key was refused. If it was and
  the entry is `Kept`, its curve is still Ed25519 and no approval gives an answer;
  if the public key reached the path, `NoOtherService` allows `NoKey` and
  `ScrapKey`. `OwnServiceAnswers` follows where no service has that curve.
- `OwnPathShown`: the path shown is the asked service's own under
  `NoneJustPastEnd` alone, which is the hypothesis that the `past_end` run breaks.
- `CaughtIsSent`, `HeldReviewed`: the other two properties of the `session` run,
  with its restrictions as hypotheses. Without derivation faults no handler
  throws once it has set `IO_ASYNCH_REPLY`, so `asynch` and `caught` are never
  both set. The constants of the `session` run satisfy
  the hypotheses of all the theorems from `NeverAnotherService` on.
- `LostByStatus`: without hypotheses, the only step after which a held command
  has neither a review nor a status word on the way is an `io_exchange` with
  `IO_ASYNCH_REPLY` set and a status word in the buffer. `AskedAtLoop` is what makes
  it inductive: a handler that leaves the flag set and has not thrown has started the
  review. The `swallowed_error` run shows this one way, the theorem that there is no other.
- `Implements`: `ArchethicApp` implements `CommandProtocol`. The protocol's
  command is `pending` while the application is up; a review on the display is
  its `asking`; the handlers refine `Ask` and `Answer`, the callbacks `Decide`,
  unplugging, resets and quitting `GoDown`, and the rest stutters.
- `ServiceFound`, `ServicesAdmitted`, `PastEnd`: at the top of its loop
  `getDerivationPath` stands at the start of the c-th service. `EncodingRead`:
  so what it reads there lies inside the encoding. `EntrySought`: the walk ends
  where `SeekEntry` says, with `getDerivationPath`'s own length test and count.
- `WalletSeed`: each character adds at most 9 to the account, so a path of 29
  stays below 0xffff.
- `Parsed`: `ReadSoFar` says that after `i` characters `coin_type` and `account`
  are what the first `i` characters read to, modulo `Word`, the first component to base 10,
  the second to base 1. The values are a recursive function over the path; that it
  satisfies its recursion is `Solution`, by `SetInduction`, and that a reduced value
  can be read on from is `ReducedBefore`.
- `Reverses`, `StaysInArray`: `i` is even and `j` its odd mirror image; the even
  places below `i` and the odd ones above `j` are done.
- `AmountFits`, `AmountShown`: while the digits are written, `rest` is `value`
  without the digits so far; while they are swapped, the places
  outside of `j..i` hold the numeral and those inside its mirror image. That
  the loop writes as many digits as the number has, and no zero before them,
  needs the least number of digits, found by induction over a set
  (`SetInduction`, from the well-foundedness of `<`).
- `FieldsSent`, `BadDecodes`: `CursorInv` gives `at` and `left` at each step, and
  the lemmas `SignData` and `AddressData` what is at each offset of the data.
- `AmountsAgree`: the eight bytes are found again at the end of the transaction,
  and `RequestFormats` (the handler's steps are the formatter's or stutter)
  brings `ShowsAmount` in.
- `OneTransfer`: `TransactionInjective`. The length of the bytes gives that of
  the receiver, the only one that varies; then each field is at its place.
- `KeysUsable`, `KeyNeverThrows`: parts of the inductive invariant `KeyInv`.
- `DerivesSlip10`: `KeyTree` implements `Slip10`. One lemma for each action says
  which bytes `tmp` has, and which of SLIP-0010's attempts they are the data of;
  checks, preparation and the end of the derivation stutter.

Only model-checked: `EveryCommandEnds` and `DerivationEnds`, as liveness under
fairness is beyond the prover. That the runs' constants satisfy the assumptions is
checked by TLC in every run.

## Not modelled

- Of `bip44.c`, what no call of the application reaches: `hdw_slip21`, the
  Ed25519 branch of `HDW_NORMAL` (`expand_seed_ed25519_bip32`,
  `hdw_bip32_ed25519`; `deriveArchEthicKeyPair` takes `HDW_ED25519_SLIP10` for
  that curve), `archethic_derive_node_bip32`, and curves other than the three.
  `be2le` is called from there only, so `ByteOrder` is about a function that
  the application does not use yet.
- The derivation for the account `0xffff`: the device's own
  (`os_perso_derive_node_with_seed_key`).
- `format_i64` and `format_hex`, which have no caller.
- Commands that no client builds: data shorter than its fields, or a receiver
  whose hash type does not fit its digest (`BLAKE2B`). Their fields would be
  read from one another's place, or from what the APDU buffer held before.
- Writes past the ends of buffers: a path of more than 29 characters, the public
  key written into `arch_address`.
- Cryptography, except for which of its calls throw; the SDK's event loop; the
  glue that `main.c:118-198` gives it; the Python test client, whose part is
  played by an environment that sends any command whenever the transport is
  free; build files and icons.

## Plan

Done: the session with its protocol, invariants and refinement; the wallet walk,
the path parser and byte order; the command's bytes, the amount and the
transaction; the key derivation and its refinement of SLIP-0010; the theorems
above. What is left, in this order:

1. The tail of `handleSignHash` in `TransferRequest` over the wallet's bytes, so
   that the sender comes from `OnchainWallet` and `DerivationPath` and not from
   the set `Senders`.
2. `TransferRequest` as a refinement of the handlers of `ArchethicApp`: the
   fields that the session takes as values are those that the bytes hold.
3. `hdw_bip32_ed25519` and `hdw_slip21`, once the application calls them.
