# A verification model of the OstrovUA identity-verification server

OstrovUA gives a volunteer's account a "Verified ID" after a phone has read the chip of a
passport and filmed the holder's face. The program is a Node.js server (`src/Server/server.js`)
with PostgreSQL functions behind it (`src/Server/migrations/*.sql`), a Python biometric service,
and an iOS client that the server does not trust. This directory holds TLA+ modules translated
from the server's source, the TLC configurations that check them on small instances, and proofs
that TLAPS checks for every size. `PROJECT.json` maps each definition to its source lines.

## 1. Inventory

### Components, their state, their operations

| Component | State | Operations | Source | Module |
|---|---|---|---|---|
| Verification tables | `contributors`, `document_tokens`, `verification_requests`, `verification_receipts`, `document_ca_receipts` | submit a review, activate a Verified ID (active authentication, or chip authentication with a receipt), record a CA receipt, ban, withdraw, delete | `migrations/2026072*_*.sql` | `VerificationStore`, `DocumentClaims` |
| Challenges | in-memory Map of `appattest.js` | `issueChallenge`, `consumeChallenge`, `inspectChallenge`, sweep | `appattest.js` | `ChallengeStore`, `ChallengeLedger` |
| Approve and CA-complete routes | requests under way | `/auth/verify/approve`, `/auth/verify/ca/complete`, `/auth/verify/challenge` | `server.js` | `ApproveFlow` |
| Attempt limiter | `verify_rate_limit` | `rl_touch`, `rl_check`, `rl_reset` | two migrations, `server.js` | `AttemptLimiter` |
| Sessions and passwords | `auth_sessions`, `password_resets`, `invited_emails`, password columns | login, OAuth, logout, change, forgot, reset, invite, accept, register | `server.js`, `20260725_auth_security.sql` | `AuthSessions` |
| Account deletion, uploads | files on disk, `uploaded_files`, deletion receipts and queue | upload, delete, remove files, retry worker | `server.js`, `20260725_auth_security.sql` | `AccountDeletion` |
| App Attest keys | `attest_keys`, with an assertion counter | register, check an assertion, compare-and-swap of the counter | `appattest.js`, `server.js` | `ChipAuth` |
| Limiter of auth routes | `auth_rate_limits` | `auth_rate_limit_consume` | `20260725_auth_security.sql` | not modelled |
| Chip authentication by the server | sealed token held by the client, `document_ca_receipts` | start, complete, record | `document_ca.js`, `server.js` | `DocumentCA`, `ChipAuth` |
| Passive Authentication | permits and waiters, cached snapshot of active signers; files an administrator replaces | `acquire`, `release`, `verifySOD` | `passiveauth.js` | `PassiveAuth` |
| Biometric client and service | calls under way; nonce directory shared by workers | sign, authenticate, keep a nonce, work, answer, validate | `biometric_client.js`, `biometric_service/` | `BiometricExchange` |
| Desktop QR sessions | in-memory map | create, opened, status | `server.js` | not modelled |

`PROJECT.json` lists these and everything else in the repository, with the reason where
something is left out.

### How they interact

A phone asks for challenges (`/auth/verify/challenge`, counted by the attempt limiter), runs chip
authentication through `/ca/start` and `/ca/complete` (which records a CA receipt bound to a
document challenge), and calls `/approve`. That route checks the limiter, consumes a liveness and
a document challenge, awaits the biometric worker and Passive Authentication, looks the CA receipt
up and ends in one SQL function that writes the Verified ID, or in one that queues a manual review,
or, in the calibration lane, in neither. Account deletion removes rows of all tables in one
function and leaves the files to a queue. Components share the database and nothing else, except
that the routes call the challenge Map directly.

### What is hard

One Node process runs all handlers, so code between two awaits is atomic and everything else
interleaves. SQL functions run concurrently at READ COMMITTED; most take advisory or row locks
first. The process may stop at any await and loses the challenges; the tables survive. Calls to the
database may fail or lose their reply after committing. Challenges, receipts, codes and locks
expire. The list of hazards in `PROJECT.json` puts each at its line, with the property that would
notice it going wrong.

## 2. Modules and their correspondence with the code

Names are the source's where TLA+ allows. A definition `X_Y` is `X` with a plausible fault `Y`;
no specification uses it, and replacing `X` by it makes some run report a violation.
Every `...MC` module extends its specification and names the symmetric sets and the values for the
cfg, if there are any.

**`VerificationStore`** has one variable per table and one action per stored function
(`submit_verification_review_v7_rotating`, the two activation functions, `record` and expiry of CA
receipts) or administrative operation (ban of an account or document, decision and closing of a
request, withdrawal, deletion, rotation of the pepper). A document token is an HMAC of the document
under a pepper; the model keeps the pair of document and pepper generation, because equality is all
the functions use. Each function is one step: it takes the advisory locks of its account and of both
tokens, in a fixed order, before it reads. Its outcome is an operator of the state the function
reads, and only the good outcome changes the tables, as the code rolls back or returns early.
Administrative operations that no function in the repository performs are external.

**`DocumentClaims`** is what that promises, with no tokens or generations in it: per document a
holder, a reserver and a ban. `VerificationStore!ImplementsDocumentClaims` maps the tables to it.

**`ChallengeStore`** is the Map, with the limit per account, the global limit, eviction of the
oldest, the sweep and restart. Every function is synchronous, hence one step. **`ChallengeLedger`**
is what handlers rely on: a challenge is used at most once, by the account and for the purpose it was
issued for, and may vanish at any time. `ChallengeStore` is checked to implement it.

**`ApproveFlow`** composes `ChallengeLedger` and `VerificationStore` through INSTANCE. A request is
a record with a program counter; its actions are the pieces of the route between awaits: the start,
the check of the account's lock and that of the device's (a calibration run is checked by neither),
consuming the liveness challenge and perhaps the document challenge, the verdict, the receipt lookup, the activation or submission (whose reply may be lost), the reset of the limiter
(which may fail after the account's key), the reply. `/ca/complete` is admitted in the same way and
then is two pieces. The worker and the two calls of Passive Authentication answer anything the code
accepts; they are one step, since in none of the three awaits the request reads or writes what
another step does. Accounts are deleted, Verified IDs withdrawn,
reviews decided and documents banned meanwhile; a restart may bring a new pepper. The ban of an account
is left to `VerificationStore`: here it would only make the route refuse. Locks of the limiter are a
set of keys; how they arise is the next module.

**`AttemptLimiter`** has a row per account and device. A request calls the SQL functions for its
account and then for its device, in two steps, for `rl_touch` and `rl_check` as for `rl_reset`, and
may stop between. A calibration run has a reset of its own, which no check of the limiter precedes. A lock is none, timed or the 100-year one; when a timed lock ends is
nondeterministic.

**`AuthSessions`** has requests of all the routes that open sessions or write passwords, each a
record with what it has read so far. Each statement the route awaits is a step, the check of the
session (`Admit`) included; the stored functions
(`auth_change_password`, `secure_password_reset`, `auth_session_create`) are one step each. The one
mutation of `/auth/forgot-password` marks old codes and inserts the new one in two steps, because two
of them that overlap do not see each other's insert; the row locks on the marked codes make other
transactions see the marks at once or wait, which the model's immediate marks stand for. Tables
`contributors`, `password_resets` and `invited_emails` are created outside the repository: email is
taken as unique, ids as never reused, and reset codes as tied to their account by a foreign key.

**`AccountDeletion`** interleaves uploads, chat messages with attachments, the deletion handler, the
worker and `account_deletion_file_removed`. That function takes no lock shared by two files of one
receipt, so it is split in the step that updates and reads and the step that commits. Failed calls,
lost replies and crashes are actions, bounded together by `MaxFaults`.

**`PassiveAuth`** is `verifySOD` with all it awaits. `acquire` and `release` hand a bounded number of
permits from caller to caller; a check goes through its openssl calls in the order of the code (CMS
and the fallback for a reordered issuer name, hashes of the data groups, chain, CRL, active-signer
snapshot with its cache, issuer country), one step each. An administrator may replace the master
list, the lookup bundle, the CRLs or the snapshot between any two of them, time may pass, and any
call or read may fail, with what the code makes of it: an openssl call that times out is "failed", a
master list, lookup bundle or snapshot that cannot be read is "unavailable", a lookup bundle is left
out of the first call, and CRLs that cannot be read when they are looked for count as none, after
which the snapshot decides. Signatures, hashes and certificates are what verifying them yields. The
history in a job says whether the document is what the state signed, what failed, what was true of the
signer at some moment of the check (`grounds`), and what an undisturbed check has to answer. Names and indices of OIDs, PEM and DER, temporary files and messages are left out.

**`DocumentCA`** holds the pure part of `document_ca.js`: the entries of a DG14 in the order of the
file, the pairs of key and algorithm that the nested loops find in them, the comparator and the stable
sort by it, of which `start` takes the first; the protected GET CHALLENGE and the check of the chip's
answer. Keys, MACs and ciphertexts are terms.

**`ChipAuth`** puts it in motion, on top of `ChallengeLedger`: `/auth/verify/attest-key`,
`verifyDeviceAttestation` (challenge, key row, signature, compare-and-swap of the counter, each
await a step), `/ca/start`, `/ca/complete` and the receipt. A signed request is known by its
challenge and may arrive any number of times, at any account, while others are handled; a key may be
registered again, which sets its counter to 0; accounts are deleted; the process restarts, perhaps
with another `APPATTEST_ENV`. A client may hold out any message it was sent by server or chip.

**`BiometricExchange`** is both ends of `/v1/verify`. The auth server signs a request under a new id
and nonce, and may receive any answer given so far, late, again, or that of another call. A worker
authenticates a request, scans the nonce files, unlinks expired ones one at a time, creates the
nonce exclusively, works, answers and exits, or stops anywhere. The clocks differ by up to `Skew`.
There are two ticks to the second, as timestamps are cut to the second and file times are not. Of
the engine the module has which evidence it refuses as contradictory and what it reports of the
rest; scores are any.

**`VerificationStoreProofs`, `ChallengeRouteProofs` (the Map of challenges and the limiter),
`ApproveFlowProofs`, `AuthSessionsProofs`, `AccountDeletionProofs`, `PassiveAuthProofs`,
`ChipAuthProofs`, `BiometricExchangeProofs`**: section 4.

## 3. Runs: what each checks and shows

| Run | Question | Bounds, and why they are enough |
|---|---|---|
| `store` | Does one passport stay with one account, through claims, queue, bans, deletion, withdrawal and a rotation? Is each Verified ID backed? Do the tables implement `DocumentClaims`? | 2 accounts, 2 documents (a contest and a way out of it), one key and challenge, 1 rotation (two generations, all the server knows), 2 request ids |
| `challenge_store` | Limits, eviction, sweep, restart; refinement of the ledger | room for 2 each and 3 in all, 4 issues: both limits are met and passed; two purposes with different lifetimes |
| `approve_flow` | Is a Verified ID or used CA receipt always the work of a production request with its own evidence? | 2 requests of 2 accounts, one a calibration tester, 1 document, 3 challenges: fewer than two requests need, so they compete for one, 1 rotation; `Lockable` limits which keys the limiter may lock |
| `attempt_limiter` | Are attempts bounded, is the row their exact account? | 2 accounts sharing a device, 2 requests, thresholds 3, 2, 2 for 10, 7, 5: each tier still has attempts before its last |
| `calibration_reset` (violated) | Is an escalation taken back only for who has verified? | the same |
| `auth_sessions` | Who may still be in after a password is replaced? Are changes, codes, sessions ever applied to a state that is gone? | 1 account, 5 requests: one to get in, one to change or reset, and three that race with it; 1 try per code so that exhausting it is reached |
| `invite_twice` (violated) | Does an invite only ever give a first password? | 4 requests: one to invite, one for the account, two that accept |
| `account_deletion` | Is nothing forgotten, are receipts and replies true, do files go only with an account that uploaded or posted them? Is every removable file eventually removed? | 2 accounts that may both be deleted, 2 files, one of which cannot be unlinked, 1 fault; both deletions may queue both files, 4 entries for a batch of 3, with at most 2 of them stuck |
| `open_receipt` (violated) | Does an open receipt always have something in the queue? | 2 files of 1 receipt |
| `passive_auth` | Does "passed" rest on true grounds, an undisturbed verdict agree with the files, and no stale snapshot let anyone through? Are permits exact, and does everyone get an answer? | 3 callers for 1 permit and 2 places in the queue, so that with two waiting the order of the queue matters; one cache for all; 2 signers, one not Ukrainian; 1 replaced file, a clock of 2 values against a maximal age of 0, so that a snapshot outlives its age |
| `chip_auth` | Is a signed request let in once, in order, with its own key, in the right environment? Does a receipt rest on the chip's answer? Is the strongest algorithm used? | 2 accounts, 2 keys, one attested as development, 3 signed requests handled 2 at a time, 1 CA session with 2 document challenges, 4 DG14 files with their entries in different orders (`ChipAuthMC`) |
| `biometric_exchange` | Is a request worked on once, and does a call return only its own result? | 2 calls, 2 workers, a window of 1 s, a nonce lifetime of 2 s as in the code's ratio, clocks 1 tick apart, 7 ticks: a nonce is removed while another is checked; 3 bodies (`BiometricExchangeMC`) |

`MaxRotations`, `MaxRequestId`, `MaxIssued`, `MaxFaults`, `MaxNow`, `MaxReplacements`, `Lockable` and
the number of requests, callers, sessions and challenges are bounds of the model; `MaxTries`, `Batch`,
the thresholds, the two limits of the Map, `MaxConcurrent`, `MaxWaiters`, `MaxAge`, `Window`, `Ttl` and
`MaxEntries` are the code's constants made small. gunicorn runs one worker at a time (and replaces it
after each request), but `replay_cache.py` is written for several processes, and a second one also
stands for one that is being replaced. `passive_auth` and `account_deletion` use no symmetry, for
the sake of their liveness.

What no run reaches and the theorems cover (section 4): two checks that really overlap over the cache
(`passive_auth` has one permit, as two with a queue of two are too many states; the proofs about
`PassiveAuth` are for any number), an answer of one CA session presented in another (`chip_auth` has
one session; `ReceiptsProve`), and a worker that stalls between reading the clock and keeping the
nonce (`biometric_exchange` has `Delay` 0, as `TimesAssumption` leaves one tick for clocks and stalls
together; `RequestsWorkedOnOnce`).

Each module has its `TypeOK` or, in its proofs, the same as a theorem; the runs check it for
`VerificationStore` and, as `LimiterTypeOK`, for `AttemptLimiter`. The runs of handlers that end
say CHECK_DEADLOCK FALSE, because a finite number of requests really is over at some time.

Properties worth reading first: `OneAccountPerDocument` and `VerifiedIsBacked` (store),
`VerifiedOnlyWithEvidence` and `ReceiptsBoundToEvidence` (approve), `SurvivorsWereUnderWay`
(sessions; it says who may survive a password change: a request that had proved the old password and
was about to open its session, which the code does not revoke), `NothingLeftBehind` and
`CompletedMeansGone` (deletion).

### Disagreements found

The violated runs check what a comment or doc says; each is in `PROJECT.json` with its quotation.

- `open_receipt`: two overlapping removals of the last two files of a receipt each see the other's as
  open, and the receipt is never completed.
- `invite_twice`: an invite is accepted twice by overlapping requests, and the second password wins.
- `calibration_reset`: a tester's calibration run, which verifies nobody, resets the limiter of its
  account and of the device, whoever locked that; the docs let such a run end before any change of the
  database.

Met while modelling, without a run: two that contradict a comment and are seen in single actions,

- `/auth/change-password` leaves mailed reset codes alive (`ChangePassword` of `AuthSessions`); the
  comment at `server.js:1052` says that after a change of the password a person's unused codes die;
- `containsPEMCRL` answers false for a CRL file it cannot read (`LookForCrl` of `PassiveAuth`), and then
  the snapshot alone decides: a revoked signer passes while the snapshot still lists it, where the
  comment at `passiveauth.js:822` lets openssl check every signer that a CRL at hand covers;

and the rest, of which the repository does not say what should happen instead:

- the rotation scheme knows one previous pepper. After a second rotation a document verified under
  the first is not recognised (section 4 needs `MaxRotations <= 1`);
- nothing clears the receipt of a withdrawn Verified ID, and its unique index turns the account's next
  activation with the same document into a conflict;
- deleting an account removes every file its messages link to, also one uploaded by an account that
  stays (`GoneWithAnAccount` says just how far a deletion reaches);
- a crash between writing an upload and registering it leaves a file that no table knows, and a batch
  of files that cannot be unlinked keeps the deletion worker from all others;
- an openssl call that times out in `verifySOD` is reported as "failed", which is said of documents,
  and not as "unavailable", which is said of the server;
- a nonce is kept for twice the window from when its worker read the clock. The authentication server
  may be ahead and the worker slow, together by less than a window; otherwise the signature outlives
  the nonce. `TimesAssumption` says so; nothing in the code bounds either (gunicorn's own timeout is
  45 s), so a worker that stalls between checking the time and keeping the nonce is outside it.

### Fairness

Two runs assume any. `passive_auth` assumes weak fairness of what each caller does next, a step of its
check or its release: every call a check awaits ends, as openssl is killed after `OPENSSL_TIMEOUT_MS`,
and `release` is in a `finally`. `account_deletion` assumes it of the worker, whose timer starts it
(`setInterval` in one process that is restarted) and whose run goes on once begun (the loop awaits one
call after another), and of the transactions under way in the database. Nothing is assumed of clients,
of the deletion handlers or of failures other than that faults are finite.

## 4. Proofs

**`VerificationStoreProofs`** proves, for any number of accounts, documents, keys and challenges:

- `TypeCorrect`: `Spec => []TypeOK`, one step per action;
- `ClaimsConsistent`: with `MaxRotations <= 1`, `Spec => []ClaimInv`. `OneAccountPerDocument` is not
  inductive: the functions look only at the newest of the active requests and at rows of two
  generations, so it takes that a document has one row and one active request over all generations
  (`OneRowPerDocument`, `OneRequestPerDocument`), of the same owner (`ClaimantIsApplicant`), none
  under a pepper not yet in use (`NoTokenOfFuturePepper`), and no owner without a row. With one
  rotation the tokens the server knows are all there are (`KnownTokensSuffice`); that is where the
  assumption enters, and a second rotation is why it is needed. TLC checks `ClaimInv` in `store`;
- `OneAccount`: `OneAccountPerDocument` from `ClaimInv`;
- `VerifiedIDsAreBacked`: `VerifiedIsBacked` is inductive together with the types. `BackedBy` names the
  claim, the receipt and the transcript of one account, and each action is shown to leave them alone or
  to take the Verified ID with them. Rotations do not matter, because what backs
  it is compared by document and never looked up under the present peppers;
- `TranscriptsPayOnce`: `OneActivationPerCAReceipt` counts, so it needs that the tables are finite and
  that a challenge has one transcript (`ReceiptInv`); the activation adds one to both sides;
- `ClaimsEndWithAccounts`: the action property `ClaimEndsWithAccount`. An activation may move a row to
  another token of its document, but `Moved` never changes its owner;
- `BansAreFinal`: `BannedDocumentStaysOut`, with `MaxRotations <= 1`, from `ClaimInv`: a ban sits on
  one row, and only because there is one row over all generations does every function see it;
- `TablesImplementClaims`: the refinement of `DocumentClaims`, with `MaxRotations <= 1`. Holder and
  reserver are CHOOSEs over table contents, which `ClaimInv` makes unique; then one lemma per function
  says which action of `DocumentClaims` its good outcome is.

**`ChallengeRouteProofs`** proves of `ChallengeStore`, for any limits and any number of accounts
and issues: `TypeCorrect`, `LimitsKept`, `OnlyOwnersLose`, and `MapImplementsLedger`, the refinement of `ChallengeLedger`. The
invariant `MapInv` adds that ids in the Map differ and that none in it was given back. `WithinLimits`
then turns on the loops of `issueChallenge`: evicting the oldest leaves one fewer, so that there is room
for the one to be added. Each function of the Map is an action of the ledger once it is known that a
challenge is in the Map exactly while the ledger can still give it out.

The same module has the proofs about `AttemptLimiter`, which counts the attempts before a challenge is
issued; its specification carries its name (`LimiterInit`, `LimiterNext`, ...) so that both can be
extended. For any positive thresholds and any number of keys and requests: `LimiterTypeCorrect`,
`RowsAreTheAccount`, `AttemptsAreBounded`. The inductive invariant is `LimiterInv`,
types and `RowsAccount`: what was let through equals what the earlier tiers allow plus the row's own
count, the count is below the tier's threshold, and tier 4 carries the lock that does not end. The
typing `tier : 0..4` itself needs that last part, so the two are proved together; the lemmas say what
`Touch`, `Reset` and an ending lock do to one key. With the code's 10, 7 and 5 the bound is
9 + 6 + 4 + 4 = 23 attempts, since the attempt that reaches a threshold is itself refused. (The comment
above `rlKeyValid` in `server.js` still gives 5, 7 and 10.) `LocksAreTheLimiters` is why `ApproveFlow`
may keep the locked keys alone: seen as that set, the limiter starts empty and every step of any of its
requests adds one key, takes one away, or does nothing.

**`ApproveFlowProofs`** proves, for any number of overlapping requests, testers and restarts with new
peppers: `NoEvidenceTwice`, `VerifiedRestsOnEvidence`, `ReceiptsServeTheirEvidence`. None is inductive.
`FlowInv` says what each program counter has established: the challenges a handler holds were issued to
its account for that purpose and are used up (`HandlersSound`); and, of the tables, that each Verified
ID and each consumed receipt has its finished request (`VerifiedSupported`, `ConsumedJustified`). The step argument has three sides: used challenges
stay used (`ChallengesStaySpent`), handlers keep what they proved (`HandlersGoOn`), and whatever the
tables newly say is explained by a handler that goes on (`TablesAreExplained`). It uses the ledger and
the tables only through lemmas about their actions.

The same module then puts the parts together. `FlowUsesTheStore` shows that with respect to the tables
every behaviour of the overlapping handlers is one of `VerificationStore`: each step calls one stored
function, with an account, device, challenge and document that `Sound` says are such, or leaves the
tables alone. So what `VerificationStoreProofs` proves of the functions holds of the running routes:
`OneAccountWhileRequestsOverlap` (with `MaxRotations <= 1`) and `BackedWhileRequestsOverlap` carry over
`OneAccountPerDocument` and `VerifiedIsBacked`, through a second instance, `StoreFacts`, that has the
proved theorems (`OneStore`: both instances say the same).

**`AccountDeletionProofs`** proves, for any accounts, files, receipts, batch and number of faults:
`DeletionTypeCorrect`, `NoFileForgotten`, `CompletedIsTrue`, `ReplyIsHonest`, `FilesGoWithAccounts`. `DeletionInv` keeps
five things in step: rows and the queue (`RowsOfUploads`, `RowsFound`, `QueueOfTheGone`), the queue and
the disk (`OnDiskOrQueued`, `RemovedIsGone`), a run and the transaction it awaits (`MarksAreTrue`,
`OneAwaited`, `TodoIsQueued`), a receipt and its entries (`CompletedIsMarked`), and the handler's count
of failures and what is left (`Accounted`). `CompletedMeansGone` holds although transactions that
overlap do not see each other, because each counts the other's entry as open: they may leave the receipt
open (run `open_receipt`), never close it early. `HonestReply` rests on `Accounted`: as long as
no failure was counted, what is not removed is still on the handler's list.

**`AuthSessionsProofs`** proves, for any number of accounts, overlapping requests and tries:
`ReplacedPasswordsShutOut`, `GoneLeavesNothing`, `NobodyIsOverwritten`, `SpentCodesAreDead`. So many
actions and invariants would make too many pairs, so a step is described by its sides: what becomes
of the one request that moves (`Moves`), of each account (`Stays`, `Appears`, `Replaces`, `Leaves`), of each
session (`SessionGoes`), of each code (`CodeGoes`) and of the histories. `EveryStepHasSides` is the only
lemma that looks at the actions; the invariants follow from the sides. `SurvivorsWereUnderWay` is not
inductive, because a session is opened long after its password was read. `AuthInv` therefore says the
same of every request that is still under way (`ReadersExcused`): what it proved is the present password,
or it was under way when the password was replaced, or an invite replaced it. That in turn needs
that a password is the hash of a request that has begun (`PasswordsMade`), that nothing was read of an
account that is not there yet (`NothingReadOfTheAbsent`), and that a program counter fixes the route
(`RequestsRouted`). The two action properties come from the guards of the one writer that a route has
(`WhoWrites`). `ReplacedOnGrounds` is about all of them: it also needs that an acceptance which sets a
password that replaces one was under way when that one came (`SettersLate`). For codes they take
`SpentAreUsed` and `NewestIsUnused`, which says that the code that ORDER BY ... LIMIT 1 picks is an
unused one, as every code has been issued (`CodesWritten`).

**`PassiveAuthProofs`** proves, for any callers, limits, signers, files and replacements:
`PassiveTypeCorrect`, `PermitsStayExact`, `PassedStaysGrounded`, `VerdictsStaySteady`, `NeverStale`.
`PermitsExact` needs that the queue holds each caller at most once and none that is being served
(`InLine`). The verdicts need an invariant of four parts: `Traced` (each stage a check has passed left
its ground, whatever was replaced since: the signature, the groups, the anchor, the revocation status),
`Undisturbed` (while nothing changed, the grounds found are those of the present files), `Settled` (a
verdict is one that was allowed) and `CacheSound` (what is cached under the time stamp of the present
snapshot is that snapshot). `AcceptedIsValid` and `MatchIsAuthentic` say that openssl's answer and the
comparison of groups accept only what is authentic.

**`ChipAuthProofs`** proves, for any accounts, keys, challenges, documents and overlapping handlers:
`ChipTypeCorrect`, `RequestsLetInOnce`, `ReceiptsProve`, `AlwaysStrongest`, `LetInInOrder`,
`KeysKeepAccounts`, `ProductionOnly`. `AlwaysStrongest` rests on the sort: in every list of entries there is
a candidate that none sorts before (`SomeFirst`: the longest key, of those the first found), and the
head of the sorted list is such a one (`HeadOfSorted`). None of the others is inductive by itself. The invariant adds that a
request under way has had its challenge consumed, by its own account (`JobsOK`), that no two handlers
have the same request (`Distinct`), that whatever was let in is consumed (`AcceptedOK`) and covered by
the counter of its key (`CurrentOK`), that a row's environment is its key's (`RowsOK`), that a token's
algorithm is one that `start` may choose (`TokensOK`), and for a session about to be recorded all that
its receipt will claim (`Proven`). `AcceptedAnswer` is the argument about the protocol: of all that a
client can hold out, only the chip's answer to that very session carries the MAC of the second
counter value.

**`BiometricExchangeProofs`** proves, for any calls, workers, evidence and times within
`TimesAssumption`: `ExchangeTypeCorrect`, `RequestsWorkedOnOnce`, `AnswersBelong`, and that the client
throws no honest result away (`HonestResultsValid`). Single use rests on `OnFile`: a request that was
worked on still has its nonce on file, or is so old that no worker can keep its nonce any more, for
which `StampedBefore` bounds timestamps by the clock and the skew, and `Punctual` bounds what workers
under way may still do.

Assumptions: `Nobody` is no account, null is neither a request nor an account, bounds are naturals,
thresholds are positive, the callers and the challenges are finite sets, `None` is no record and no
challenge, files and receipts are named by numbers, by which pending files are ordered, DG14 files are
sequences of entries, `TimesAssumption`, as the ASSUMEs state (`ApproveFlow` repeats what its
instance of the store assumes); TLC evaluates them in the runs.

That an account at its limit has an oldest challenge, a list of files a next one (`Current`) and a set of
codes a newest one is a matter of least elements of sets of naturals, for which three of the modules use
`WellFoundedInduction`.

Every safety property and action property of the passing runs is proved. Liveness under fairness
(`QueueDrains`, `EveryoneAnswered`) is out of the prover's reach and stays with TLC. The three violated
properties are of course not proved.

## 5. Assumptions and what is not modelled

- One server process (the code keeps challenges and sessions in memory and is deployed so).
- The SQL functions are atomic where they lock first. An administrator's UPDATE that takes no advisory
  lock is interleaved between functions, not inside one.
- HMACs, random ids and hashes are unique; cryptographic checks may answer anything.
- Account ids are not used again after a deletion; a person who comes back is another account.
- Not modelled, though stateful: desktop QR sessions (a map of sessions of ten minutes that only the
  desktop reads), the auth routes' rate limiter, Telegram login
  and the linking of a second OAuth provider, the expiry of invites. They stand beside the claims
  above and decide none of them.
- Evaluation of images, the parsing of certificates and CMS structures, the iOS client, push messages,
  calls, the reverse proxy, offline tools and the web page keep no state that these properties speak of.

## 6. Plan

1. (done) `DocumentClaims`, `VerificationStore` and its proofs; `AccountDeletion`; `ChallengeLedger`,
   `ChallengeStore`; `ApproveFlow`; `AttemptLimiter` and its proofs; `AuthSessions`.
2. (done) `DocumentCA`, `ChipAuth`, `PassiveAuth`, `BiometricExchange` and their proofs.
3. (done) The rest of `VerificationStoreProofs` with the refinement; `ChallengeRouteProofs`,
   `ApproveFlowProofs`, `AccountDeletionProofs`; the proofs about `AuthSessions`; the routes together
   with the tables (`FlowUsesTheStore`).
4. `VerificationStore` with an activation split at its statements, against bans that take no lock.
5. The auth routes' fixed-window limiter.
