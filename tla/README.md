# A TLA+ model of tag-reader-server

tag-reader-server verifies taps of NTAG 424 DNA tags: a phone reads a tag, which
emits a SUN (an encrypted message with the tag's UID and its read counter, and a
MAC), and posts it to the server. The server checks the MAC with the file key of
the card's record, compares the counter with the one it stored, and answers with
the card's link, the id of a *model* (name, description, image). Administrators
register cards, edit models and manage user accounts through web pages and an API.

This directory models the parts of that program whose correctness depends on
interleavings, restarts and the order of transactions; TLC checks the models on
small instances and TLAPS proves the results that hold for every instance.

## 1. The system

One Go process, an iris HTTP server, a goroutine per request, one background
goroutine (AppSession). State is in bbolt files and in a directory of images.

| component | state | operations | hard behaviour |
|---|---|---|---|
| SUN verification and card records (`card/verify_base.go`, `card/card_db.go`) | bucket of cards: counter, status, file key, signature, link | `VerifyPICCData` (from `verifySUN`), `WriteCardData`, `CheckedCardStatus`, `UpdateCardPW`, `UpdateCardLink`, `UpdateCardCTR`, `DelUpdateCard` | the counter is read in one transaction and written in another; SUNs arrive late, twice or never; restarts |
| user accounts (`card/card_user.go`, `card/card_admin.go`) | buckets `users`, `sessions`, `loginlog`, `meta`; `CardAdmin.lastToken` in memory | login and bootstrap, logout, password change and reset, role change, creation | chains of up to six transactions, whole rows written back, a field shared by all logins, restarts between any two |
| models and images (`card/card_db.go`, `server/server_card_verify.go`) | bucket `link-data`, the cards' links, the image directory | `modelWrite`, `modelImgClean`, `cardWrite`, `cardlinkset`, `carddel` | files and rows are not in one transaction; a form merged with a row read earlier |
| AppSession (`server/server_admin.go`) | a map token → login time, `started`, `ticker`, `Ch` | `Update`, the loop goroutine, `Kill`, `ChangeTime` | fields read without the mutex, loops that overlap, shutdown |
| guards and routes (`server_admin.go`, `server_card_verify.go`, `card_admin.go`) | the cookie's session, the table of sessions | `checkAdminVerify`, `checkOperatorVerify`, the handlers behind them | a guard and its handler look at the session at different moments; cookie and X-token name sessions independently |
| start, stop and key files (`server_main.go`, `verify_base.go:60-104`, the `Create*` functions) | four locked bbolt files, `appmasterkey`, `metakey` | `ServerMain`, `loadOrCreateAESKey`, `Close`; `filltestcards` beside them | a stop between create and write; several processes; the order of the locks |
| listings, search, paging (`card_db.go`, `server_search.go`) | none (read-only) | `GetCardList`, `ModelLinkListJSON`, `CardSearchJSON`, `ModelSearchJSON` | a table that changes between two pages, the counter decoded in two ways, links that do not resolve |
| cryptography (`verify_base.go`, `lrp.go`) | none | AES-CMAC, LRP, session MAC | leading zeros in the doubling of LRP's subkeys |
| legacy store `admin.db` (`card/card_db.go`) | bucket `admin-record`, the legacy credential | `OnLoginUpdate`, `CheckAdminLogin`, `ChangeAdminPW` | as its callers see it |
| `ancientAuth` | reference pictures, `./uploadtmp` | `authRef`, `authSubmit` | parts of a request that fail after others were stored |
| browser pages, mocks | | | not modelled |

Interactions. `verifySUN` calls `VerifyPICCData`, which calls the card database
twice, and then reads the link, which names a model. The account handlers call
the user store; every admin page asks it for the role of the session. An API
request with an `X-token` passes its login time to `AppSess.Update`; the loop
copies the map to `admin-record`. `Close` calls `Kill`, then closes the files.
A start opens `adminsession`, `userdb`, reads or makes the two key files, then
opens `admin` and `carddata`; `filltestcards` opens the last two only.

What makes each of them correct, in short: a tap is accepted once, under the
current key, and a stored counter or REPEATED flag is never lost (cards); there
is always an admin, names are unique, a session carries its account's role, a
client gets its own token (accounts); a link resolves, an image in use exists
(models); tokens are forgotten in the end and shutdown returns (AppSession);
only admins do what is guarded for them, and an ended token is worth nothing
(guards); keys that were handed out are the keys of the next start (start); a
walk through the pages misses nothing (listings).

## 2. The modules

| module | models | lines |
|---|---|---|
| `SunVerify` | the card records, verification, the administrator's handlers, the tag | `verify_base.go:248-382`, `card_db.go:675-893` |
| `TagLedger` | what the card records promise, without requests: a mark per card, accepted above it, refused and flagged at or below | abstract |
| `UserAccounts` | the user store and the handlers that use it | `card_user.go`, `card_admin.go:131-400`, `server_admin.go:314-445` |
| `Accounts` | what the user store promises, without handlers or transactions: each operation at once, on accounts as they are, and what a stop may cost | abstract |
| `ModelStore` | models, image files, links of cards | `server_card_verify.go:279-420`, `card_db.go:206-379` |
| `AppSession` | the token table, its loops, Kill | `server_admin.go:24-107`, `card_db.go:447-462` |
| `Access` | guards, cookies, X-tokens, the handlers that open, change and end sessions | `server_admin.go:109-445`, `card_admin.go:62-417` |
| `Server` | processes in one data directory: locks, key files, start, close, kills, the tool | `verify_base.go:61-104`, `card_db.go:146-202`, `server_main.go`, `filltestcards/main.go` |
| `Listing` | pages, searches, the two decodings of the counter | `card_db.go:232-291,557-673`, `server_search.go` |
| `Lrp` | LRP: key material, evaluation, decryption, CMAC, session MAC | `lrp.go`, `verify_base.go:163-237` |
| `AncientAuth` | the picture demonstration | `ancientAuth/authdb.go`, `server_auth.go` |
| `Answers` | one request (or one walk) and all it reads, with the properties of `Listing`, `AncientAuth` and `Lrp` | as those three |
| `MC*` | small instances for TLC | |
| `*_proofs` | theorems and proofs | |

Conventions common to all. A *handler* is a request goroutine. A bbolt
transaction is one atomic action (bbolt serialises writers and gives readers a
snapshot); a handler that uses several is a chain of actions with a `pc` and the
values it keeps in between, so two handlers may overtake each other at every
transaction, exactly where goroutines can. `Restart` loses what is in memory and
keeps the files. Comments that say *history* mark variables that only record the
past for the properties.

**SunVerify.** `registered` holds the keys of the card bucket, `fkey`, `ctr` and
`status` the fields of a record. `VerifyRead` is `ReadCardFilekey` with all that
follows it up to the write: MAC (`Authentic`: made with the record's key), the
counter present, `Verdict` and `CounterToStore`. `VerifyAccept` and
`VerifyRefuse` are the calls of `UpdateCardCTR`, `VerifyAnswer` reads the link.
Every failing check leaves no trace in the state and is the absence of a step.
SUNs stay in `suns` for ever, which gives delay, duplication, reordering and
loss. `TagTap` and `TagProgram` are the tag and the phone app: external, taken
from how the server uses them. The counter stops at `MaxRead`, as the 24-bit
counter of a tag does at its limit. `cardwrite` programs the key the server
returns, so that the tag may hold an old key for a while.

**UserAccounts.** `exists` and `users` are the bucket `users`; a password stands
for its salt and hash. `req[h].row` is the copy of a row that
`UserSetMustChange`, `UserChangePW` and `UserChangeRole` read in one transaction
and write back in another. `LoginStart` to `LoginReply*` follow
`adminLoginCore`, `UserLoginNew` and the two callers: the page sets a cookie with
the request's own token, the API also hands out `lastToken`. Sessions that the
clock has expired are removed by `SessionDelete`, since every reader treats them
as absent. `Promised` maps the store to `Accounts`: a chain counts as one step
at the transaction that makes it effective. A changed row counts once the
account's sessions are gone (`Shown`), a flag from the moment it is due
(`Unsettled`), a session once the login that opened it has answered
(`Answered`); a stop in between is a step of `Accounts` too, one that says what
is lost.

**ModelStore.** A row is its name and image. The image comes first, as in the
code, before the form is checked: `Submit` creates or truncates the file, and
`StoreImage`, a part of `ModelNew` and `ModelEdit`, fills it, unless `StoreFail`.
`damaged` are the files in between, or left there. An id in the form may be
unknown to the store or not an id at all (`Malformed`: `NewModelInfo` mints one);
`known` are those that `NewV4` will not return any more. `EditLookup` and
`ModelAddLink` are the two transactions of an edit; `CleanList`, `CleanScan` and
`CleanRemove` the three phases of the clean-up. A removal may fail, and the code
drops the error, so that nothing is stated of what an answered clean-up has
removed; and who has the file open writes on to a file without a name. `inUse`
and `overlapped` (a handler has taken a step while another was busy) are
history. `CardWrite` takes any id, as `WriteCardData` does.

**AppSession.** Each unlocked read and each locked section is an action.
`LoopStart` is the first locked section of the goroutine, which is what lets two
loops start; `Crash` is a nil ticker or the runtime's detection of a map written
while it is iterated, and is one possible outcome of such a race, a lucky run
the other. Requests are served during `Kill` only if they were in progress
when the listener was closed (`late`).

**Access.** `Receive` is a request that passes its guard: `Admits` are the rules
of `checkAdminVerify` (with an X-token three API routes, whatever the role; with
the cookie an admin) and of `checkOperatorVerify`. What the guard refuses leaves
no trace and is no step. The handler runs later: `Serve` acts on what the guard
found, `Recheck` asks again for the role as `adminChangeRole` and `adminResetPW`
do, `ChangeOwnPW` and `Logout` resolve the session again by themselves. `jar` is
the cookie's session, shared by the tabs of a browser. A login reads the role
(`Login`) and opens its session later (`AdminIn`); a change writes (`Write`) and
deletes sessions later (`Rotate`). Routes with the same guard and the same use of
sessions are one route; the transactions inside a chain are those of
`UserAccounts`, whose module keeps to one account at a time what this one asks of
all. `trusted`, `stale`, `overstepped`, `late` and `ended` are history.

**Server.** `pc` is the file a process is about to open or the step of `Close` it
has reached; `lock` is bbolt's file lock, for which `bbolt.Open` waits without a
timeout. `KeyStat`, `KeyFill` and `KeyRead` are the three parts of
`loadOrCreateAESKey`: a file that is absent is created empty, an empty one is
filled (also cut short), one of 16 bytes is read, any other size panics.
`failing` are files that cannot be opened: `adminsession` and `userdb` are then
gone without, `admin` and `carddata` end the process. `Init` lets one of the
first two fail, not both (section 4). A process dies anywhere.

**Listing, Lrp, AncientAuth** are functions, without variables. In `Listing` a
table is the sorted sequence of its keys, and a walk is given one table per
request, so that it may change in between; a search also gets the models as they
are when each row's name is read. In `Lrp` a byte string is the sequence of its
bits, the most significant first; the code's 4 bits of a nibble, 16 bytes of a
block and the polynomial 135 are `NibbleBits`, `BlockLen` and `Reduction`, `Enc`
is any permutation per key, and `Bytes` is `big.Int.Bytes`, which drops the
leading bytes that are zero. `MulRound` is one round of `mulPoly`; a number of at
most two bits more than a block takes two of them. In `AncientAuth` a picture is
its distance from the reference. `Answers` draws one input, `in`, per behaviour
and states what the functions make of it; `MCAnswers` gives the inputs.

Every module with variables has a `TypeOK`. `sun_concurrent` checks the one of
`SunVerify`; the others are theorems (section 5) and no run repeats them.

## 3. The runs

Deadlock is checked except for AppSession, whose process ends, Server, whose
starts are bounded, and Access, whose tokens are, and where without a user store
every guard refuses.

| run | instance | shows |
|---|---|---|
| `sun_serial` | 1 tag, 2 keys, 1 handler, 4 reads, threshold 1 | with one request at a time: the same tap is never accepted twice (`AcceptRaisesCounter`), nothing is accepted under a replaced key (`AcceptedUnderCurrentKey`), and the records implement `TagLedger` (`LedgerSpec`) |
| `sun_concurrent` | 2 tags (one mirrors no counter), 2 handlers, 4 reads, threshold 1 | whatever the interleaving: `TypeOK`; stored counters were accepted (`StoredCounterWasAccepted`); no false alarm (`RepeatedWasAccepted`); the baseline and the flag are never lost (`BaselineKept`, `FlagKept`); a refusal flags (`RefusalFlags`) |
| `sun_overlap` | 1 tag, 2 handlers | finding: `AcceptRaisesCounter` fails |
| `users_serial` | empty store, 1 handler, all operations, 2 passwords, 1 id to create, 2 sessions, restarts | `AtLeastOneAdmin`, `UniqueNames`, `BootstrapMarked`, `SessionRoleCurrent`, `ForcedChange`, `BootstrapOnce`; the store implements `Accounts` (`AccountsSpec`) |
| `users_concurrent` | 2 admins, one logged in, 2 handlers; login, logout, role and password changes; 3 sessions | `HandedOutLogged`, `GrantedOnly`, `AccountsStable` hold under every interleaving of stale rows |
| `users_last_admin` | 2 admins logged in, 2 handlers | finding: `AtLeastOneAdmin` fails |
| `users_mixup` | 2 accounts, 2 logins at once | finding: `ReplyIsOwn` fails |
| `models` | 2 models, 1 name, 2 images, 1 card, 2 handlers, restarts, failing writes | whatever overlaps: links keep resolving (`NoLinkBroken`), no clean-up removes an image in use ever since it began (`CleanSparesInUse`); until two requests overlap: `ImagesPresent`, `EditKeepsRest`, and a model comes to refer only to an image stored as a whole (`ReferredWhole`) |
| `session_loops` | 1 token, up to 3 loops, Kill | a token has a loop that will look at it (`TokenHasLoop`), the channel `Kill` reads has a message or a sender (`KillAwaited`); `TokenForgotten` and `KillReturns` under fairness |
| `access` | an admin and an operator, 2 browsers, 2 requests at once, 2 sessions ever; five routes, one of each kind | `PrivilegeCurrent`, `RevokedNeverServed` |
| `server` | 2 servers and the tool, 2 starts each, 1 card, 2 keys that may be drawn | `KeysAgree`, `KeyKept`; nobody waits for a lock in a circle (`NoCircle`); `StartSettles` under fairness |
| `answers` | tables of up to 4 rows, pages and searches of 2, walks of 3 requests; counter bytes of 4 values; LRP with nibbles of one bit, blocks of two bytes, the polynomial x^4+x+1, data of up to 3 bytes and some of 5, counters with a carry, an overflow and more than four bytes; every combination of missing, unreadable and good pictures | `WalkFaithful`, `SearchAnswers`, `CounterShown`, `LrpAsSpecified`, `LrpDecrypts`, `SubmitAnswers` |

**Bounds.** They are constants of the modules, or named there: `MaxRead` (four
reads give a baseline, a normal step, a JUMP over threshold 1, and a repetition),
`Tokens`, `Uuids`, `Models` (ids that may be used: two suffice for an old and a
new one), `Handlers` (each divergence found needs two, one to overtake and one to be
overtaken; the theorems about the concurrent runs cover any number), `Loops` (two that
overlap and one that starts afterwards). The threshold is small in the passing
runs only so that a JUMP fits in four reads; the theorems hold for any. In
`users_serial` a VIEW leaves out `granted`, which is written and never read and
of which no property of that run speaks.
`server` has two starts of each process, so that each may meet what an earlier
one left; two keys, so that a second draw would show. `access` has two sessions:
a third multiplies the states beyond use, and the theorems need no bound.
`answers` keeps the ratios that matter (a page smaller than the table, a byte
whose upper half marks a longer number, a polynomial that overflows a block by
one and two bits) and enumerates everything below them.
`NewV4` may fail at any time, as in the code; when `Tokens` or `Uuids` is used
up, it must.

**Why some runs have one handler.** The properties of the serial runs are what
the code promises and keeps as long as requests do not overlap (a restart may
still cut one short). Two handlers break each of them, and `users_last_admin`,
`users_mixup` and `sun_overlap` show the clearest ones. The same
instance with two handlers, or the stated change, also shows:

- `UniqueNames` (two creations of one name, `card_user.go:559/568`);
- `SessionRoleCurrent` (a login that read the role before a demotion,
  `card_admin.go:193/195`; drop `cut` to see the restart at `card_user.go:647`);
- `BootstrapOnce` (two first logins, `card_admin.go:209/213`);
- `ForcedChange` without `cut` (a stop between `card_user.go:568` and `571`);

`models` has two handlers; `EditKeepsRest`, `ImagesPresent` and `ReferredWhole`
speak of it until `overlapped` is set, because two edits, or an edit and a
clean-up, break them (section 4).

With two handlers a stale row that is written back (`card_user.go:543`) may also
undo a change of role, password or flag, and a repeated SUN may write a lower
counter over a higher one (`verify_base.go:372`). `users_concurrent` and
`sun_concurrent` do not deny it: they say that what comes back was granted to that
account, or accepted for that tag, before.

**Fairness.** `AppSession`: every loop goroutine and `Kill` once
begun are scheduled (`WF`), tickers tick, and the clock moves so that a token
grows older than `removeTime` (`WF` of `Expire`: login times are fixed, and
`Update` passes the login time, not the time of the request, `card_user.go:470`).
Requests need not come and the server need not be stopped, so `Update` and
`KillStart` have none. `Server`: what a process does by itself (`Proceed`) is
weakly fair, as the scheduler runs it and bbolt polls a lock; nobody need start,
stop or kill it. While a server serves, another may wait for its files for ever,
which `StartSettles` allows; it forbids a circle. It takes for granted that `Kill`
returns, which `AppSession` shows for loops that have not overlapped. Requests of the other modules
promise no liveness: a client may leave, and a process may stop anywhere.

## 4. Findings

Shown by a run that expects a violation:

1. `VerifyPICCData` lets two overlapping requests with one SUN both pass
   (`sun_overlap`).
2. Two role changes at once may leave no admin (`users_last_admin`).
3. The API may answer a login with the token of another one (`users_mixup`).

Shown by a change of a run:

4. The image clean-up may remove an image a model has just been given: it lists
   the files, reads the rows and removes in separate steps
   (`server_card_verify.go:364-382`). Check `RowsHaveImages` in
   `ModelStore.cfg`.
5. A token that `Update` adds while the loop ends is dropped without ever being
   synced (`server_admin.go:73-82`). Add `PROPERTY TokenSynced` to
   `AppSession_loops.cfg`.
6. `SERVER_REFERENCE.md:193` says "a demoted admin loses access immediately". A
   login that read the row before the demotion opens an admin session after it
   (`card_admin.go:195`), and a stop between the write of the role and the
   deletion of the sessions leaves them all (`card_user.go:647`). `Access` records
   both in `stale`; leave `stale` out of `Trusted`, and `PrivilegeCurrent` fails.
7. With neither `adminsession` nor `userdb` to be opened, nothing keeps a second
   server from the key files, and two may fill one with different keys. Drop the
   condition of `Server`'s `Init`, and `KeysAgree` fails.
8. A JUMP is flagged above 10 (`verify_base.go:31`), `SERVER_REFERENCE.md:266`
   and `296` say above 2. The threshold is a constant of `SunVerify`.
9. An image in use that is uploaded again is truncated first
   (`server_card_verify.go:327`); a stop or a full disk leaves it so, and the
   models that use it show a damaged image. Check `ImagesWhole` in
   `ModelStore.cfg`.

Stated by a property that holds, since it says what the code does:

10. `CounterShown`: the search shows a smaller counter than the list from 128 on,
    because it decodes the bytes as a varint (`card_db.go:573`).
11. `LrpAsSpecified`: LRP's CMAC is right exactly when the subkey it uses has no
    leading zero byte (one key in 256). Otherwise `xor` gives nil, and the MAC is
    one value for all data, which is not the one a genuine tag computes.
    `LrpDecrypts` holds for one block, which is all a SUN has, whatever the
    counter; for more blocks only with a counter of four bytes, because
    `incrCounter` reads and returns four of the eight that `VerifyPICCData` gives
    it (`lrp.go:157`).
12. `SearchAnswers`: a card search shows nothing at all if one of the cards found
    has a link that does not resolve; `cardwrite` stores any link.
13. `SubmitAnswers`: a picture without a reference of its number panics (an index
    out of range), an unreadable reference counts as a match of 100 %, a missing
    first reference shifts the others, and a failed request leaves its directory.
14. `KeyPanics`: a key file cut short stops every start until it is removed by
    hand.

Met while modelling, and not covered by a property: `filltestcards` never loads
`AppMasterKey`, so that `WriteCardData` refuses every new card although the
comment at the top of its `main.go` says it writes five; `modelsearch` answers
with rows that carry no id, which the page uses; logging out with an X-token and
the cookie of another session ends the cookie and leaves that session alive;
without a user store a login passes by the legacy credential, gets no token, and
every guard then refuses it; a form with an id in capitals is looked up as it is
spelled and written as a UUID is (`server_card_verify.go:341`), so that its empty
fields blank those of the model; `modelimgclean` answers OK also when a file could
not be removed (`server_card_verify.go:381`).

## 5. What is proved

`SunVerify_proofs`, for every set of tags, keys and handlers, every bound and
every threshold; the only assumption is `ConstantsAssumption` (there is a tag,
the derived keys are keys, the bounds are numbers):

- `TypeCorrect`: `TypeOK` is an invariant.
- `CountersSound`: `IInv == TypeOK /\ StoredCounterWasAccepted /\ PendingStore`
  is inductive. `StoredCounterWasAccepted` alone is not: `VerifyRefuse` writes a
  value the handler has carried since an earlier transaction, and only
  `PendingStore` says that this value was accepted. `peak` never falls, so what
  was accepted then still bounds it now, even if the card was deleted and
  written again in between.
- `StoredCountersAccepted`, `NoFalseAlarm` follow from it.
- `BaselineNeverLost`, `FlagSticky`: the action properties, from `IInv` and one
  step per action.
- `SerialImplementsLedger`, `SerialNoReplay`: with one handler, the records
  implement `TagLedger` and each acceptance raises the counter. The invariant
  adds `AbsentBlank` (a deleted record is blank) and `PendingCurrent`, that the
  decision read from the record is still the decision the record gives; it is
  what two handlers break.
- `RefusalLeavesFlag` (`RefusalFlags`) from `TypeOK`, for any number of handlers;
  `SerialCurrentKey` (`AcceptedUnderCurrentKey`) for one, from `PendingUnderKey`:
  the key a pending SUN was made with is still the card's.

`ModelStore_proofs`, for any number of handlers: `TypeCorrect`, with `KnownIds`
(`NewV4` will not return an id in flight); `LinksKept` (`NoLinkBroken`): no step
but `ModelDelLink` takes a model away, and its transaction sees every card; and
`CleanIsSafe` (`CleanSparesInUse`). Its invariant, `Spared`, is that a clean-up
about to remove files has none on its list that was in use all along: the scan of
the rows takes those off, and neither the list nor `inUse` grows afterwards
(`PhaseStep`). Until two requests overlap, stopped anywhere: `ImagesKept`
(`ImagesPresent`), `WholeImages` (`ReferredWhole`) and `EditsMerge`
(`EditKeepsRest`), all from `Undisturbed`: at most one handler is busy (`OneBusy`),
and what it knows is `StillTrue`: the image of a form is stored as a whole
once its upload is done, the row to be written has that image or one in use and
the fields the form left empty, and the cleaner's list has nothing in use.

`AppSession_proofs`, for any number of loops, however they overlap:
`StartedLoops` (`StartedHasLoop`: while `started` is set a loop has yet to look at
the table, inductive with the shape of `pc`), `TokensLookedAt` (`TokenHasLoop`),
`KillIsAnswered` (`KillAwaited`) and `TypeCorrect`. The last says that a loop
sends only on a channel that was made, on a nil one it would wait for ever; it
needs `Channeled`, that `ch` is set from the start of a loop on. `TokenHasLoop`
rests on `StartedHasLoop`, since `Update` starts a loop only if `started` is not
set: a loop empties the table in the section that resets `started`, so no token
stays without one. `KillAwaited` is about loops that have not overlapped. `KillInv`
adds that then at most one of them runs, that there is a channel as long as `Kill`
may come to read one, and that the channel it is going to read has a message or a
loop that will end on it.

`Server_proofs`, for any servers, tools, cards and keys: `TypeCorrect`,
`ServersAgree` (`KeysAgree`), `KeysKept` (`KeyKept`) and `NobodyInACircle`
(`NoCircle`). The last rests on `LockOrder`: who holds a file is past the place
where it opens it, and the tool holds only the last two. So one waits only for a
process that waits for a later file or for none, and a circle would have no
latest file. The first two are not inductive
alone. The invariant adds that a server past its first two files holds each of
them that can be opened (`Held`), so that at most one server is in the key files
or beyond (`Alone`, by `Init`'s condition on `failing`); that one about to fill a
file has seen it without a key (`Seen`); and that what is in memory is in the file
(`Holds`). So a file is filled only while nobody holds or has handed out another
key.

`Access_proofs`, for any clients, accounts, tokens and handlers: `TypeCorrect`,
`OnlyAdmins` (`PrivilegeCurrent`) and `EndedIsEnded` (`RevokedNeverServed`). The
invariant adds that tokens in use were minted and a token has one session
(`Tokened`), that a handler about to leave has ended its token's session
(`Leaving`), and that every admin session belongs to an account that is `Trusted`,
and every request that passed an admin guard is in progress for one it may still
act as (`Privileged`). `ended` grows only where the session is gone, and tokens
are minted once.

`UserAccounts_proofs`, for any accounts, passwords, tokens and handlers:
`TypeCorrect`, `HistoryComplete` (`HandedOutLogged`), `NothingMadeUp`
(`GrantedOnly`) and `AccountsStay` (`AccountsStable`). `GrantedOnly` is not
inductive: a handler writes back a whole row it read in an earlier transaction.
The invariant adds that what is in flight was true when it was read
(`InFlight`: the account exists, the role and the password of the row were
granted to it, its name is the account's), that the bootstrap account's id is its
name (`Bootstrapped`) and that the shared `lastToken` is in the history
(`LastLogged`). Accounts, grants and the history only grow (`Grows`), so what was
true when it was read is still good enough when it is written. `Bootstrapped` is
why `UsersAssumption` says that the legacy name is no uuid, and that a seeded
account with that id has that name.

`UserAccounts_serial_proofs`, for one handler, restarts anywhere, and a store that
started empty (as every one did): `SerialAdmin`, `SerialNames`, `SerialMarked`,
`SerialRoles`, `SerialFlags` and `SerialBootstrap` prove the six properties of the
serial run for any names, ids and tokens. The invariant adds `Fresh`, that what
the handler read is still so (the row it holds is the account's, the name it
looked up is still free, there is another admin than the one it demotes), and
the store's half of each property with an exception for what the handler still
has to put right (`Marked`, `RolesCurrent`, `FlagsCurrent`). That the count of
`UserChangeRole` protects the last admin needs that accounts are finitely many.
`Fresh` is exactly what the two violating runs break with two handlers.

The same module proves `SerialImplementsAccounts` (`AccountsSpec`): every step
of the store is a step of `Accounts` or leaves what it promises alone. A chain
counts late, at one of its last transactions, so the proof needs that what the
earlier ones saw or wrote is still there (`RefInv`): a login works on the
account its credential is of (`LoginRef`), its token is in one session and with
no client (`TokenRef`); a change is made under a session that allows it and is
still open (`SessionRef`); a changed row is the old one but for what was asked,
and its flag is still to be set (`ChangeRef`); tokens given out were minted
(`TokensMinted`), and the first account is the marked one (`Rooted`). With two
handlers it is false, for the reasons of section 3.

`Answers_proofs`, for every page size, limit and byte base, any tables, disks
and submissions, any widths, polynomial and keyed permutation of LRP
(`ListingAssumption`, `ObjectsAssumption`, `InputsAssumption`, `LrpAssumption`):
`WalksAreFaithful` (`WalkFaithful`), `SearchesAreAnswered` (`SearchAnswers`),
`CountersAreShown` (`CounterShown`), `SubmissionsAreAnswered` (`SubmitAnswers`),
and `OnePage`: the row visited at any count is in the window of exactly one
page. The state never changes, so these are theorems about the loops of the
code. A loop is a recursive function over the rounds done; `Loop` says that
there is one, and `LoopUnique` that it is the only one. What holds after every
round is shown by `Induction` in the form the provers can use: a set with 0 and
the successor of each of its members has all numbers, because otherwise there is
a least one missing.

The same module proves LRP for keys, data and blocks of any size. `LrpIsAsSpecified`
(`LrpAsSpecified`): the code's `cmac` is the definition where the subkey in use
keeps its first byte, and one value for all data elsewhere. The subkeys are
followed through `mulPoly` by the two bits that are shifted out (`Subkey1Doubles`,
`Subkey2Doubles`), with `big.Int.Bytes` dropping or keeping bytes (`BytesDrops`,
`BytesFull`, `IsSubkey`); `CmacLoop` and `ReferenceLoop` show that the loop of the
code and the definition read the same blocks. `LrpDecryptsAll` (`LrpDecrypts`) is
the injectivity of `Enc` and the equality of the counters of both directions, by
induction over the blocks.

Only model-checked: liveness, which is out of the prover's reach. `TokenForgotten`
and `KillReturns` of AppSession and `StartSettles` of Server hold on the instances
of section 3; `TokenHasLoop`, `KillAwaited` and `NoCircle`, which are proved, say
for any instance that there is somebody left to take the step they wait for.

## 6. Not modelled

- AES and its CMAC, the ECDSA signature of a tag, the concatenations of session
  vectors: library calls, or arithmetic behind "made with the key".
- Parsing of requests, TLS, logging (also the race on `LastErrorID`), CORS.
- Failures of a bbolt transaction itself (disk full): the code answers with an
  error and has changed nothing.
- The torn read of `lastToken` (a Go string without a lock): the model gives one
  value or the other.
- The reading and removal of legacy login records, `ChangeAdminPW`: the fallback
  when there is no user store, where every guard refuses.
- An id spelled in another way than its row's, in a form of `modelwrite`
  (section 4), and the models `filltestcards` writes: they name an image `test.png`
  that is not stored, so that `ImagesPresent` is about models of the server only.
- The decoding of pictures and the histogram of `ancientAuth`, its list pages.
- The pages and scripts, the database interfaces and mocks.

## 7. Plan

Done: `SunVerify` with `TagLedger`, `UserAccounts` with `Accounts`, `ModelStore`,
`AppSession`, `Access`, `Server`, `Listing`, `AncientAuth` and `Lrp` with `Answers`;
proofs of every property of the passing runs but liveness. What `ModelStore`
promises is stated by its four action properties and `ImagesPresent` rather than
by an abstract specification: with rows and links changed in one transaction each,
that one would repeat the actions.
