# Verification of erp-azhan

The repository is the back office and the public API of a travel agency for umrah pilgrims: a Go
server over MySQL 8 (`src/internal`, `src/cmd/api`) and a web frontend. Pilgrims (jamaah) take seats
on a *schedule* (a departure of a package), pay in instalments, change rooms, leave and are
cancelled; agents bring them in and earn commission; goods are handed out to them; admins and
customers log in. Each of these is rows of one database, written by several handlers in transactions
of their own, some of which read before they lock, and some of which are no transactions at all.

This directory holds TLA+ models of that, TLC runs on small instances, and theorems checked by TLAPS
for all instances. All line numbers are those of `src/`; paths without `src/` are below
`src/internal/`.

## 1. Inventory

| Component | State | Operations that change it | What makes it correct | Module |
| --- | --- | --- | --- | --- |
| booking desk, `booking` | `bookings`, `booking_pax`, `booking_discounts`; takes and returns `schedules.seat_sisa` | create, draft (create, edit, delete), finalize, cancel pax, room, discounts, cancel, block and release seats | seats taken = seats returned; `seat_count` = active regular pax; total covers what was paid | `BookingDesk` |
| money back, `booking/refund.go` | `booking_refunds` | record a refund | no more goes back than came in | `BookingDesk` |
| payment, `payment` | `payments`; drives `bookings.status` | record, confirm, reject, delete | a payment is decided once; status follows price and money; securing takes seats | `PaymentDesk` |
| CRM deals, `crmdeal` | `bookings`, `payments`, `crm_deal_requests` | a deal: `book_seat`, `dp`, `lunas` | a request counts once, a lead converts once | `BookingIntake`, `PublicCheckout` |
| hold worker, `cmd/api/main.go` | none of its own | list lapsed holds each minute, release one by one | never touches a secured booking; every lapsed hold ends | `BookingIntake` |
| self booking, `selfbooking` | `bookings`, `booking_checkout`, `jamaah` | checkout on the website and in the agents' portal | sale window, duplicates, limits, one booking per request key, the right pilgrim | `BookingIntake`, `PublicCheckout`, `PilgrimRecords` |
| customer orders, `customer/orders.go` | `bookings`, `payments` | report a transfer, cancel | only while the hold runs | `PaymentDesk`, `BookingIntake` |
| customer accounts, `customer` | `customer_accounts`, sessions, reset links | register, log in, change and reset the password, fill in orders | no session outlives its password; a link works once | `CustomerSessions`, `AgentAccounts` |
| schedule, `schedule` | `schedules` | create, edit, status, seat correction, archive | seats in use stay in use; closed schedules admit nobody; prices cover the down payment | `ScheduleDesk`, `PackageCatalogue` |
| agents, `agen` | agent columns of `customer_accounts`, fee payments, bindings, payouts | apply, decide, suspend, change recruiter, bind, rebind, pay out | no cycle of recruiters; status is the last decision; a payout is covered | `AgentAccounts`, `AgentCommission` |
| commission, `komisi` | `transaksi_komisi` | earned when a booking is paid in full, moved with the pilgrim | earned once; follows the binding | `AgentCommission` |
| equipment, `perlengkapan`, `booking` | items, sets, stock per brand, ledger, logs of pax | catalogue, purchase, correction, hand out, take back | stock never negative; ledger adds up to stock; a pax is supplied once | `EquipmentDesk` |
| identity, `identity` | refresh tokens, cache of verdicts | log in, refresh, log out | a revoked right ends within the cache's time; tokens tell the truth | `AdminSessions` |
| roles, users, units, `rbac`, `adminuser`, `orgunit` | users, roles, divisions, teams | create, edit, move, deactivate, delete | a super admin remains; memberships fit roles | `AdminDirectory` |
| pilgrims, `jamaah`, `shared/jamaah.go` | `jamaah` | create, edit, move between brands, delete, match | one holder per NIK; bookings stay in their brand | `PilgrimRecords` |
| documents, `dokumen` | documents and their archive | upload, replace, review | a review is of the version that was seen | `PilgrimDocuments` |
| letters, `surat` | letters, counter of a brand | issue, settings | numbers differ | `PilgrimLetters` |
| brands and reference data, `brand`, `hotel`, `airline`, `airport`, `itinerary`, `destination`, `category`, `bankaccount` | one row each | create, edit, delete | what a package names stays | `PackageCatalogue` |
| media, mail, scripts, frontend, catalogue views | files, no state of their own | | | not modelled |

**Interaction.** There are no queues and no callbacks between the components: they meet in the
database, and in two memories of the server process (the cache of verdicts, the counters of the
checkout). MySQL runs at REPEATABLE READ: a transaction's *plain* SELECTs see the snapshot taken by
its first plain SELECT, its *locking* SELECTs and its UPDATEs see what is committed. Only
`crmdeal.Process` (crmdeal/repository.go:62) and `selfbooking.processBooking`
(selfbooking/repository.go:62) are SERIALIZABLE. Every write to a booking locks its row, every change
of `seat_sisa` the schedule row. `recalculateTotalTx` (booking/repository.go:1696) calls
`SyncBookingStatusTx` (payment/repository.go:405), so every change of a price ends in the payment
package's status machine; that machine calls `komisi.OnBookingLunas` when a booking is paid in full.

**Hard behaviours.** Snapshots older than the lock that follows them (`payment.UpdateStatus`,
`FinalizeBooking`, the move of commission, the handing out of equipment); checks a handler makes
before the statement that writes (the whole catalogue, the desk's pilgrim, settings of letters,
archiving); several statements with no transaction around them (login, refresh, password changes); a
worker that lists first and locks later; deadlines that pass at any time; requests that are repeated
because their answer was lost; chains of row locks (super admins, recruiters) that MySQL breaks by
rolling one transaction back. `PROJECT.json` lists the hazards with their lines and the properties
that cover them.

## 2. Modules

```
SeatLedger              what is promised about seats
  SeatLedgerProofs      ... and that the promise cannot oversell
BookingStore            rows, prices, status machine, seat arithmetic
  BookingDesk           booking, with the refunds of cancelled bookings
    BookingIntake       crmdeal, selfbooking, customer cancellation, hold worker
  PaymentDesk           payment, customer payments
  ScheduleDesk          schedule: capacity, status, archive
    BookingSystem       all of them over one database; properties; refinement of SeatLedger
      BookingClaims     a statement of the repository the code does not keep
      BookingSystemProofs    types, seats, and the kinds of steps
      BookingHistoryProofs   money, deadlines, duplicates, and the refinement
PublicCheckout          request keys, leads, limits per account: selfbooking, crmdeal
AgentAccounts           applications, fees, decisions, recruiters: agen
AgentCommission         bindings, commission, moves, payouts: agen, komisi
  CommissionClaims      a statement of the repository the code does not keep
EquipmentDesk           perlengkapan, and the equipment half of booking
  EquipmentClaims       a statement of the repository the code does not keep
AdminDirectory          users, roles, units: adminuser, rbac, orgunit
AdminSessions           tokens and the cache: identity
CustomerSessions        sessions, passwords, links: customer
PilgrimRecords          jamaah, shared/jamaah.go, matching in selfbooking and crmdeal
PilgrimDocuments        dokumen
PilgrimLetters          surat
PackageCatalogue        schedule's packages, brands, reference data
MC...                   instances for TLC; MCEventually, MCPortal and MCBackOffice hold
                        several components
SumProofs               what a sum over a finite set is
SalesProofs             theorems on AgentCommission and PublicCheckout
EquipmentProofs         ... on EquipmentDesk
BackOfficeProofs        ... on AdminDirectory, AdminSessions and PackageCatalogue
PortalProofs            ... on AgentAccounts, CustomerSessions, PilgrimDocuments,
                        PilgrimLetters, PilgrimRecords, and MCPortal's composition of them
```

**Steps.** A transaction that locks before its first plain SELECT is one step: what it reads is
current, and no other writer of its rows runs between. Everything else is split where the code can
be interrupted:

| Split operation | Steps | Where |
| --- | --- | --- |
| `payment.UpdateStatus` | `VerifyBegin` (snapshot), `ConfirmPayment` or `RejectPayment` | `PaymentDesk` |
| `FinalizeBooking` | `FinalizeCheck` (handler), `FinalizeLock` (snapshot), `FinalizeCommit` | `BookingDesk` |
| recording a payment, archiving | `RequestPayment`, `ArchiveCheck` (handler), then the transaction | `PaymentDesk`, `ScheduleDesk` |
| hold worker | list the lapsed holds, release each | `BookingIntake` |
| checkout, deal | arrives, locks and looks the key up, commits, counts and answers; the server may stop anywhere | `PublicCheckout` |
| `MarkPerlengkapanDiberikan` | reads the set in its snapshot, locks and writes | `EquipmentDesk` |
| `DeleteItem` | checks, deletes, no transaction | `EquipmentDesk` |
| payment in full | snapshot of the agents, commission | `AgentCommission` |
| move of commission | snapshot, commit after the losers' accounts are locked | `AgentCommission` |
| override of a recruiter | one step per account it locks | `AgentAccounts` |
| taking the super admin role away | locks its user, then all super admins | `AdminDirectory` |
| login, refresh | one step per query | `AdminSessions` |
| filling the cache | reads, stores | `AdminSessions` |
| change and reset of a password | one step per statement; failing between any two | `CustomerSessions` |
| customer's upload, admin's review | looks, writes | `PilgrimDocuments` |
| letters' settings, download | checks, writes | `PilgrimLetters` |
| desk's choice of a pilgrim, admin's and customer's form | looks, writes | `PilgrimRecords` |
| every save and some deletions of the catalogue | checks, writes | `PackageCatalogue` |

A rollback writes nothing. Where a step was taken before, it is an action of its own (`...Fails`, the
server's stop, `RowsCollide`); a one-step transaction that fails is stuttering.

**State of the booking core.** `schedules[s]` has capacity, seats left, status, how far off the
departure is (`far`: more than 30 days, `near`, `past`) and whether a handler that counted no active
bookings is about to archive it. `bookings[b]` is a row with its pax (`none`, `aktif`, `batal`),
prices per pax, number of discounts, block, `seat_count`, deadline (`none`, `running`, `lapsed`) and
the checkout's `full_payment`. Ids are never reused: `absent` is a row not yet inserted, `deleted`
one that was. `payments[p]` likewise; an `absent` payment with a booking is a request the handler let
through. `verifying[v]` is the snapshot of an open `payment.UpdateStatus`; `finalizing[b]` the
progress and snapshot of a `FinalizeBooking`; `candidates` what the worker has listed. `total_harga`
and the sum of confirmed payments are derived (`Total`, `Paid`), because each transaction recomputes
them. All seat movements go through `Save(b, row, released, taken)`: what `RestoreSeats` returns
(cut off at the capacity), then what is taken, or nothing if it does not fit. `Recalculate` adds the
status machine. Refunds are only ever added up, so a row carries their sum (`refunded`).

**State of the others.** The head of each module names it; the variables keep the names of tables and
columns where they have one. Two kinds of variables have no column: what a handler knows between two
of its steps (`handing`, `pindah`, `ganti`, `removing`, `issuing`, `loading`, `masuk`, `setel`,
`kirim`, `tinjau`, `unduh`, `atur`, `meja`, `kerja`, `request`), and marks of history that only
properties read (`keluar` per pax in `EquipmentDesk`, which the ledger's rows hold as references;
`lolos`, `balap`, `dpRagu`, `namaRagu`, `bersih`, `turun`: this row was written by a request that
another one overtook).

**Seeded faults.** Definitions headed "Fault" (`SaveOverdrawn`, `SeatsRestoredTwice`, `Unread`, ...)
are not used by any specification. Each is the definition that follows it with one plausible
mistake, kept to show that the property it is paired with in `PROJECT.json` notices the mistake.

### What the models abstract

* Bookings: a pilgrim is an infant or not for good (birth dates and the rule of JB-08 are not
  modelled); a regular pax has a bed price, 0 meaning no room chosen yet; a draft's cancelled pax,
  whose room type the handler would look at again, is not looked at. All discounts have one value. A
  CRM deal has one pax, as `Process` demands (crmdeal/repository.go:50), who is a regular one. Every
  `full_payment` the instance lists may be chosen, instead of computing it from the departure. The
  portal's test of an amount is part of its transaction's step; `PaymentDesk` says why that hides
  nothing. Room prices may change at any time: any price of `RoomPrices` may be met. Schedules exist
  from the start with every seat free, as `schedule.Create` makes them; the `expected` value of a
  seat correction only refuses and is left out. Amounts are integers, as the columns are
  `DECIMAL(12,0)`; no sum comes near the range.
* Checkout: what makes a sale possible is in `BookingIntake` and one refusal in `PublicCheckout`; a
  request body is its form (schedule and seats), the sender's account or the CRM's lead.
* Agents: particulars, pictures and the brand that restricts which admin may act are left out;
  amounts of commission are the constants `Langsung` and `Pembinaan`; the branch of repeat orders is
  switched off (`KomisiRepeatCashbackAktif` is false, komisi) and left out. How many accounts an
  override looks at before it gives up (50, agen/kaitan_akun.go:125) is the constant `MaxHops`.
* Equipment: what other components do to a booking is there as far as it changes who is on it and
  whether it is a draft, unpaid, paid or cancelled.
* Sessions: one account of the back office, and one of the portal, stand for all, as accounts share
  nothing here. In the portal passwords are numbered in the order they are set; in the back office
  they are left out (a login is one that gave the password), as changing one changes nothing in a
  token. `admin_users.role` is a function of the roles (`Legacy`), because every writer of roles sets
  it in the same transaction (rbac/tx.go:123-131). Signatures and limits of failed attempts are left
  out.
* Pilgrims: whether a record of a name has the birthday a booking gives is left open.
* Catalogue: a row is the set of brands whose packages may name it; a name stands for a package's
  name and departure; unique names and slugs, which the database has keys for, are left out.
* Everywhere: codes, texts, pictures, uploads, pages, exports and mails, but for the number of mails
  a checkout sends.

## 3. Runs

| Run | Instance | What it shows |
| --- | --- | --- |
| `Seats` | capacity 1 or 2, two bookings, two pilgrims, one payment, one verifier | `TypeOK`, `NoOversell`, `OnlyBindingBookingsHoldSeats`, `NoDeadlineOnSecuredSeats`, `SeatsMoveOneForOne`, `WorkerSparesSecured`, and that every step is one of `SeatLedger` (`ImplementsLedger`) |
| `Billing` | one booking with refunds, a pilgrim and an infant, bed prices 2 and 3, one discount of 2, two payments of 1, 2 or 4, two verifiers, `full_payment` both ways | `StatusFollowsPayments`, `OnlyCancellingPaxOverpays`, `DemotionKeepsSeats`, `SecuringTakesSeats`, `DecisionIsFinal`, `CancellationIsFinal`, `RefundsFitPayments` |
| `Drafts` | a draft and a booking, two pilgrims, an archive and three distances of the departure | `SeatCountMatchesPax`, `ContactIsHandedOver`, `PortalSharesNoPilgrim`, `ClosedScheduleAdmitsNone` |
| `Eventually` | `part = "holds"`: two bookings, one pilgrim, a payment; `part = "sessions"`: an account, a login, two loads, three versions, two role sets of which one is Customer Service alone; with fairness | `LapsedHoldsEnd`, `VerdictsCatchUp`, `SessionsInvariant` |
| `Checkout` | two requests, two keys, two forms on two schedules, an account, an agent's and the CRM's way, limits of 2 seats and 1 booking a day | `CheckoutInvariant`, `AdmissionsWithinLimits` |
| `Commission` | three agents of whom one sells and may be the pilgrim, one booking, one payout, one move | `CommissionInvariant`, `RebindingIsAnAdminsDecision`, `OverdrawnOnlyByStaleMove` |
| `BackOffice` | `part = "directory"`: two users, two roles, a division with a role of its own and two more units, two removers; `part = "equipment"`: one item for all or for women, a pax of either sex, two admins, stock up to 1 (2 when goods come back) | `DirectoryInvariant`, `JoinsActiveUnits`, `EquipmentInvariant`, `SuppliedOnceAsEntitled`, `WriteOffsAreExplained`, `DeletedItemsAreForgotten` |
| `Portal` | one of five components per behaviour: three accounts with two overrides in all steps, and four in those that set recruiters (`part = "chains"`), each override looking at two accounts; two logins, two changes and two links; a document with three versions, two uploads and two reviewers; two letters, two downloads and two forms; two pilgrims, two brands, two names and a NIK | `AccountsInvariant`, `CustomerInvariant`, `PapersInvariant`, `RecordsInvariant`, `VersionsKeepTheirReview`, `NamesAreBooked` |
| `Catalogue` | two brands, two packages, two requests; prices and payments, or one row of one of six kinds that a package names; edits that leave out the journey type where the row is a destination | `CatalogueInvariant`, `UsedRowsStay` |

Invariants named after a component are its type invariant together with what must hold in every
state:

| Invariant | Parts |
| --- | --- |
| `CheckoutInvariant` | `AnswersAgree` (an answer under a key is always the same booking, and the one asked for), `LeadConvertsOnce`, `RepeatsCostNothing` |
| `CommissionInvariant` | `CommissionFollowsBinding` |
| `EquipmentInvariant` | no negative stock, `LedgerExplainsStock`, `LogsAreWhatIsOut` |
| `DirectoryInvariant` | `SuperAdminRemains`, `AssignmentsFitRoles`, `ActiveTeamInActiveDivision` |
| `SessionsInvariant` | `ClaimsMatchVersion` |
| `AccountsInvariant` | `RecruitersFormNoCycle`, `UplineIsRecruiter`, `StatusIsLastDecision` |
| `CustomerInvariant` | `OldSessionsEnd`, `LinkSetsOnce` |
| `PapersInvariant` | `LetterNumbersDiffer` |
| `RecordsInvariant` | one holder per NIK, `BookedInTheirBrand` |
| `CatalogueInvariant` | rows behind foreign keys, `DownPaymentFits`, `NamesDiffer`, `PaidIntoItsBrand` |

*Why the bounds are enough.* A seat error needs two parties that compete for the last seat (two
bookings, capacity 2), a booking that keeps a pax after one is cancelled (two pilgrims) and one round
of block, release and re-block, which nothing bounds. A capacity of 1 makes the cut-off of
`RestoreSeats` reachable. One schedule is enough: transactions on different schedules share no row,
except that a booking belongs to one schedule for life (a draft's may change, but it holds no seats).
A status error needs a price that goes up and down, a down payment below the total, and a second
payment; a snapshot error a second transaction on the same rows, so every split operation has two
instances or a one-step rival. A cycle of recruiters needs two walks that both pass before either writes, and one that the limit
lets through an account more than the limit forbids: four, for a limit of two; a
stale verdict needs a second load that stores late; a stale version of a token needs three versions.
An error in the catalogue needs two requests on one row. Repeated requests need a second request, and
the server may stop and forget at any time, which nothing bounds. The runs explore their state spaces
completely.

*Several components in one run.* `MCPortal`, `MCEventually`, `MCBackOffice` and `MCPackageCatalogue` choose with
`part`, in the initial state, which component (or which kind of row) takes steps. Components that
share no table have independent properties, so their interleavings with each other would only multiply
states. Under fairness the component that does not move asks for nothing, since its initial state
enables no fair action.

*Snapshots and properties.* `StatusFollowsPayments`, `DemotionKeepsSeats`, `SeatsMoveOneForOne` and
`OnlyCancellingPaxOverpays` except steps in which a verification with an *outdated* snapshot ends
(`FreshStep`); `OverdrawnOnlyByStaleMove`, `DownPaymentFits`, `NamesDiffer`, `UsedRowsStay`,
`BookedInTheirBrand`, `LetterNumbersDiffer`, `ClaimsMatchVersion` and `OldSessionsEnd` name the overlapping requests that may
break what they say. These exceptions are the races the code has: each is listed below. "Secured" and
"paid" in `NoDeadlineOnSecuredSeats` and `WorkerSparesSecured` are words for the status (`dp`,
`lunas`): a booking whose money an outdated rejection overlooked has lost that status, and its
deadline is then real (below).

*Symmetry* is used in the runs without liveness; ids of one kind that the instance does not
distinguish are interchangeable.

*Deadlock* is checked in the runs of the booking core. Elsewhere `CHECK_DEADLOCK FALSE` is set, as ids
are never reused and counters are bounded: when all are used up and nothing is open, the system may
stop.

*Fairness.* `WorkerFairness`: the server runs `runSeatHoldExpiry` in a goroutine with a one-minute
ticker for as long as the process lives (cmd/api/main.go:598); an error on one booking is skipped
(crmdeal/repository.go:330) and met again the next minute. So the listing and the handling of each
listed booking are weakly fair, and the successful release of a booking strongly fair, as it is tried
again and again and fails only for transient reasons (a lost connection, a deadlock victim).
`SessionsFairness`: the entry of the cache gets old (time passes), and a request that has read an
account stores what it read. No user is assumed to do anything: `VerdictsCatchUp` needs no request,
as it speaks of what the cache would answer where it needs no load.

### Statements the code does not keep

| Run | Statement | What happens |
| --- | --- | --- |
| `ClaimBalance` | payment/repository.go:373, "concurrent confirmations cannot share a balance" | two confirmations have their snapshots before either commits; the second waits for the booking lock, but its SUM does not see the first. Both are accepted, beyond the total |
| `ClaimStock` | perlengkapan/repository.go:16 and handler.go:151, an item that "masih memiliki stok" cannot be deleted | the stock is looked at, then bought, then the item is deleted, in statements of their own: the stock goes with it (`ON DELETE CASCADE`) |
| `ClaimCommission` | komisi/hook.go:16-19, `ProcessBookingLunas` is idempotent by UNIQUE(booking_pax_id, jenis, akun_penerima_id) | a booking falls back from `lunas` after a correction and rises again when the agent has another upline: the bonus for the pax is inserted again for the new upline, and the old one keeps his |

*Known disagreements without a run.* Found while the models were written; none has a property of its
own, and the properties above except them where they meet them.

Money and seats:

* payment/repository.go:423: `SyncBookingStatusTx` sums payments in the caller's snapshot. A rejection
  that began before a confirmation committed demotes the paid booking to `baru` with 24 hours, where
  :471-473 say that it keeps its seats without a deadline. It counts pax there too (:449), so a
  confirmation that began before `CancelPax` committed takes seats for the cancelled pax, against
  booking/repository.go:1296-1297. Both, and `ClaimBalance`, have one cause: the plain
  `SELECT booking_id` at :321.
* payment/repository.go:214: an amount may not exceed the bill (:194), but a discount to nothing
  between the handler's test and the transaction switches the transaction's own test off (`> 0`).
* booking/repository.go:1085: the duplicate check of a finalization comes after the schedule lock, as
  :549 asks, but reads a snapshot taken before it. booking/handler.go:432: the completeness of a draft
  is checked before the transaction only, so a pax without a room can be finalized at price 0.
  `crmdeal.Process` has no duplicate check.
* schedule/handler.go:806: no archiving with active bookings (:804-805), but one may arrive between
  the count and the update.
* booking/cashback.go:123 reads the balance in a snapshot older than the account's lock. No code path
  earns cashback at this commit, so the balance is always 0.
* selfbooking/handler.go:191 and crmdeal/handler.go:77: a repeat is refused (429; a hold that has
  passed meanwhile) before the stored answer is looked up.

Agents, equipment, users:

* agen/kaitan_pindah.go:13: the balance of who loses commission is tested in the mover's snapshot, so
  a payout committed meanwhile leaves it negative (`OverdrawnOnlyByStaleMove` says that nothing else
  does). kaitan_pindah.go:59: two bonuses of one pax may meet at one upline, where the unique key
  refuses the rebinding for good (`RowsCollide`).
* booking/repository.go:2250: taking goods back is said to return them to stock only while the
  booking is `baru` or a draft; it always does.
* agen/kaitan_akun.go:122-123: the chain above a recruiter must not pass through the account, but the
  walk stops after 50 accounts (:125) without an error and the override is written: a longer chain
  can be closed to a cycle. `RecruitersFormNoCycle` speaks of cycles no longer than the walk and the
  account itself.
* adminuser/repository.go:409, rbac/tx.go:130: a login or refresh reads `brand_id` and `role`
  (identity/repository.go:22, :99) before the version (rbac/repository.go:30). If the account is moved,
  or its roles are replaced, in between, it signs (identity/handler.go:239, :337) the old brand or the
  old `role`, which identity/middleware.go:64 and :116 authorize on, with the new version, so no cache
  refuses it. `ClaimsMatchVersion` says that this is the only way to a token that does not match its
  version. adminuser/handler.go:334: a login under way stores its refresh token
  after all tokens were revoked.
* customer/handler.go:471: other devices are logged out on a change of the password, but not one whose
  login overlaps it.

Pilgrims and catalogue:

* customer/dokumen.go:155: an approved document is not replaced, unless the approval comes between the
  check and the write. surat/handler.go:103: a settings form takes the counter back below a number
  issued since its check, so numbers repeat.
* selfbooking/agen_booking.go:25: a NIK no record has is said to make a new record; a record with the
  same name and birthday is used instead, even if it has another NIK.
* brand/handler.go:121: `kode_brand` is compared before the write and has no unique key.
  bankaccount/handler.go:136: the 409 for an account in use cannot occur, as the key is
  `ON DELETE SET NULL` (migrations/028:37).

## 4. Proofs

Every invariant and every action property of the passing runs, and the refinement, is a theorem: it
holds for every value of the constants that satisfies the named assumptions, however many bookings,
pilgrims, accounts, payments and concurrent requests there are. The runs came first: TLC checked each
property before its proof was begun. What is left to TLC alone is at the end of this section.

### Assumptions

Each component's `ASSUME` says what its constants are, and nothing about reachable states: that the
value standing for SQL's NULL is no row, that amounts are positive and bounds natural numbers (as the
handlers' validation and the columns have it), which sets are subsets of which, and that tables have
finitely many rows: `Bookings`, `Jamaah`, `Payments` in `BookingStore`, `PaxIds` and `Brands` in
`EquipmentDesk`, `Jamaah` and `Pencairan` in `AgentCommission`, `Accounts` in `AgentAccounts`, `Bookings` in `PublicCheckout`,
`Pesanan` in `PilgrimRecords`. Finiteness is what lets sums and numbers of rows be natural numbers;
no bound on them is assumed. TLC evaluates the assumptions of every module in the runs.

### Seats, money and deadlines: the booking core

| Theorem | States |
| --- | --- |
| `TypeCorrect`, `SeatsAreNeverOversold`, `SeatCountsAreExact`, `OnlyBindingHoldSeats` (`BookingSystemProofs`) | `TypeOK`, `NoOversell`, `SeatCountMatchesPax`, `OnlyBindingBookingsHoldSeats` |
| `SecuredSeatsHaveNoDeadline`, `RefundsAlwaysFit` (`BookingHistoryProofs`) | `NoDeadlineOnSecuredSeats`, `RefundsFitPayments` |
| `CancelledForGood`, `DecidedOnce`, `ClosedAdmitsNone`, `ContactHandedOver`, `PortalSharesNone`, `SparesSecured` | the action properties on cancellation, decisions, closed schedules, contacts, duplicates and the hold worker |
| `StatusFollows`, `SecuringTakes`, `DemotionKeeps`, `OnlyCancellingOverpays`, `SeatsMoveExactly` | the action properties on status, price, money and seats |
| `SystemImplementsLedger` | `Spec => ImplementsLedger`, the refinement of `SeatLedger` |
| `LedgerNeverOversells` (`SeatLedgerProofs`) | the promise of the abstract ledger itself |
| `Invariant`, `HistoryInvariant` | the inductive invariants `IInv` and `HInv` |

*First invariant.* `NoOversell` is not inductive. To take seats, `BlockSeat` uses `seat_count`, while
`CancelSeatBlock` returns the number of active pax: the two agree only because of
`SeatCountMatchesPax`, which in turn needs that the pax of a binding booking change in no other way
than through `CancelPax`. A confirmation takes `max(pax of the snapshot, seat_count)`, which is at
least what the booking then claims, whatever the snapshot says: outdated snapshots can lose seats but
never oversell them. `IInv` is the conjunction of `BookInv` (every row is a `GoodRow`: a blocked
booking is binding, a binding booking counts its active regular pax and has one; `SeatsFit`: seats
left and seats held fit the capacity; a finalization that holds its lock belongs to a draft with a
regular pax), `PayInv` (a payment's booking is binding or cancelled, never a draft: so a payment
cannot outlive its booking, as only drafts are deleted) and `WorkInv` (an open verification is of a
payment that was recorded). A lemma on `Save` says what one transaction may do to the claims and to
`seat_sisa` so that a schedule stays within its capacity; each action is shown to be such a `Save`, or
to touch neither.

*Kinds of steps.* The action properties would otherwise need every action anew, so
`BookingSystemProofs` first shows, under `IInv` and `MoneyInv` (amounts are positive; what a
verification saw confirmed stays confirmed), that every step is of one of a few kinds: `Quiet` (no
booking changes), `Rewrites` of one row, which is `Drafted`, `Opened`, `Revised`, `LetsGo`, `Blocks`,
`Refunds` or `Lapses`, or `Settles` (a payment is confirmed or refused, with the sums of a snapshot
that is current in a `FreshStep`). A kind keeps of an action what all the properties need, and no more.

*Second invariant.* `NoDeadlineOnSecuredSeats` is not inductive either: a rejection whose sum is zero
would give a paid booking a deadline. That a paid booking has a confirmed payment (`SecuredByMoney`),
and that what a snapshot counted is still confirmed (`MoneyInv`), excludes it. `RefundsFitPayments`
needs that no payment of a cancelled booking is confirmed or taken back. `DraftInv` says what the
duplicate checks of the two desks leave to each other: a portal booking that meets a locked
finalization on its schedule is one its snapshot shows, or shares no pilgrim with the draft (this is
`NotBeingFinalized`, the portal's look at open drafts, at work). `HInv` is `IInv`, `MoneyInv` and
these four.

*Refinement.* A step of the system moves the claims of at most one booking (`Transfers`). Its seats are
claimed from, or returned to, one schedule, which is a step of `SeatLedger`; a step with an outdated
snapshot may lose seats, which the ledger allows (it promises that no seat is sold twice, not that none
is lost); everything else stutters. `SeatsMoveExactly` says that without such a snapshot none is lost.

### The other components

| Module | Theorems | Why the property alone is not inductive |
| --- | --- | --- |
| `EquipmentProofs` | `EquipmentStaysFine`, `EquipmentAlwaysAddsUp`, `SuppliedOnce`, `WriteOffsExplained`, `DeletedItemsStayForgotten` | `EInv`: stock plus what is out is what came in, per brand and item; and, per pax (`PaxFine`), the logs of a supplied pax are exactly what is out for it, in the brand of its booking's schedule, and an unsupplied one that has not left has nothing. `DeletedItemsStayForgotten` needs both: that a stock and a ledger without rows of the item stay so, and that a request which found the item in a set before, and still carries that set, hands nothing of it out once it is gone |
| `SalesProofs` | `CommissionFollows`, `OnlyAdminsRebind`, `OnlyStaleMovesOverdraw` | `CommissionInv`: commission belongs to bookings that were made, so a booking that is being made adds none; the tables are finite, so balances are sums of numbers. `OnlyStaleMovesOverdraw` compares the sums before and after each step: after a move a balance is that of the move's snapshot, less the pilgrim's rows the agent had and plus those he has now, lost and gained alike |
| `SalesProofs` | `CheckoutStaysRight`, `LimitsHold` | `CheckoutInv`: as long as a request holds its locks (`RequestFits`), nothing is stored under its key, and no two hold the same key or lead (CRM) or the same schedule (others) (`Apart`); what is stored is a booking of that form; a committed request that was not a repeat has not been mailed, and two such have different bookings; no counter exceeds the mailed bookings, so what a restart of the server forgets can only admit more |
| `BackOfficeProofs` | `DirectoryStaysInOrder`, `ActiveUnitsJoined` | `DirectoryInv`: open removals of the super admin role are of different users and hold the lock of theirs and of every unit they assign, so what they read is still so when they write (`RemovalFits`) |
| `BackOfficeProofs` | `TokensMatchTheirVersion` | `SessionsInv`: roles that a login has read are those of the version it has read, if that is still the account's: it reads the version first; brand and old role are those of the version the account had when they were read; no version anywhere exceeds the account's |
| `BackOfficeProofs` | `CatalogueStaysWhole`, `UsedRowsStayThere` | `CatalogueInv`: what a request has checked holds until another request writes it, which marks the first one (`TaskFits`); a deletion is marked by a save that names its row |
| `PortalProofs` | `AccountsStayInOrder` | `AccountsInv`: an override holds the rows it has passed and no two hold the same row, so what it read is still the chain: every group of accounts closed under recruiters that contains the new recruiter contains all it has passed and the next (`Walks`). If it ended at the top, the group has a member recruited by nobody; if it was cut off, the group has more than `MaxHops + 1` members |
| `PortalProofs` | `OldSessionsDoEnd` | `CustomerInv`: between revoking the sessions and the new password, the open sessions are the one kept and those whose login overlapped; a link that is being used belongs to one reset |
| `PortalProofs` | `DocumentsStayTyped`, `ReviewsStay` | `DocumentsInv`: the archive has every version before the current, in order; a reviewer's page shows a version that exists, with its file |
| `PortalProofs` | `LettersDiffer`, `PapersStayInOrder` | `LettersInv`: a form that passed its check is not below the counter it saw |
| `PortalProofs` | `RecordsStayInOrder`, `NamesBooked` | `RecordsInv`: every booking's pilgrim has a row, and a request past its check still has what it checked, unless the row was moved since and is marked so (`RequestFine`) |

*Sums.* `Total`, `Paid`, the ledger of the equipment and the balances of agents are
`SumFunctionOnSet` of the community modules, a recursive function over the subsets of a set that
chooses its next element arbitrarily. `SumProofs` shows that there is such a function for every finite
set (`AdderExists`, and `AddersAgree` that there is one only), by induction over finite sets in the
form that speaks of a set of sets, since induction theorems that take a predicate cannot be
instantiated. From it follow that sums of natural numbers are natural numbers, that a sum is any one
value plus the sum over the rest (`SumSplit`), that sums over disjoint sets add, and how a sum moves
when one value does.

### Only model-checked

* `LapsedHoldsEnd` and `VerdictsCatchUp`: liveness under fairness needs `ENABLED`, which the prover
  does not handle.
* The three statements that fail (`ClaimBalance`, `ClaimCommission`, `ClaimStock`): there is nothing to prove.

## 5. Not modelled, and the plan

Left out: visa and document progress flags, booking codes (random, with a unique key), cashback (no
code path earns any), quotes and captcha, limits per address and of failed logins (in-memory counters
that only refuse), e-mail verification and profile edits (single locked rows), names of units, editing
a role's permissions, views, exports, rankings. Not modelled at all: the read models of the public
catalogue, media and mail (I/O), the command line tools and the test database, the frontend (state of
a browser).

Next, in order:

1. The safety half of `LapsedHoldsEnd` and of `VerdictsCatchUp` as theorems: what the worker has listed
   stays in reach of a release, and an entry of the cache that is stored late is old by the next load.
2. Cross-component theorems: `PortalSpec`'s composition done for documents and letters can be done for
   the booking core and the equipment, whose bookings `EquipmentDesk` models by their status alone.
3. Completeness of a draft (booking/handler.go:432), which is checked outside the transaction: a
   property with its exception, in `BookingDesk`.
