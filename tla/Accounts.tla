--------------------------------- MODULE Accounts ---------------------------------
(***************************************************************************)
(* What a user registers - account groups, limit groups, accounts, cards,  *)
(* investment accounts, securities, quotes - and the references between    *)
(* them, as the handlers of packages/database/src/mutations.ts and the     *)
(* restore of a backup keep them.  Rows are never removed, only marked, so *)
(* a foreign key says nothing about the row being in use: the handlers     *)
(* check it, by reading first and writing later at READ COMMITTED.         *)
(*                                                                         *)
(* A request is a worker: Begin... reads and checks, Commit writes.  The   *)
(* idempotency envelope around it is MutationService's, the amounts of the *)
(* transactions are Ledger's.                                              *)
(***************************************************************************)
EXTENDS Integers, Functions

CONSTANTS
    Worker,       \* requests that may run at the same time
    Group,        \* ids of account groups
    Limit,        \* ids of limit groups (cards that share a limit)
    Account,      \* ids of accounts
    Card,         \* the accounts that are credit cards
    Inv,          \* ids of investment accounts
    Settlement,   \* the cash account of each investment account
    Asset,        \* the account that carries its securities
    Security,     \* ids of securities
    Equity,       \* the opening balance account
    Txn,          \* ids of transactions
    Currency, Home,
    Existing,     \* what is registered at the start
    Backup,       \* the rows of a backup: [id -> row], for some ids
    None,
    Entries,      \* bound: the pairs of accounts a transaction may be between
    MaxRequests   \* bound: requests the clients make

Tables == <<Group, Limit, Account, Inv, Security>>
Id == Group \cup Limit \cup Account \cup Inv \cup Security
Pair(i) == {Settlement[i], Asset[i]}
Paired == UNION {Pair(i) : i \in Inv}

\* Rows of the tables, and what a transaction has to do with them.
Row == [live : BOOLEAN, version : Nat, group : Group \cup {None}, limit : Limit \cup {None},
        autopay : Account \cup {None}, currency : Currency]
Booking == [live : BOOLEAN, accounts : SUBSET Account, inv : Inv \cup {None},
            security : Security \cup {None}, shares : {-1, 0, 1}]

\* A backup is of a ledger in which nothing dangles: what its rows refer to is in it, a
\* group in use; what is in use in it refers to what is in use; only cards share a limit.
InBackup(id) == id \in DOMAIN Backup
LiveInBackup(id) == InBackup(id) /\ Backup[id].live
BackupAssumption ==
    /\ DOMAIN Backup \subseteq Id
    /\ \A id \in DOMAIN Backup :
        /\ Backup[id] \in Row
        /\ Backup[id].group # None => LiveInBackup(Backup[id].group)
        /\ Backup[id].limit # None =>
            id \in Card /\ InBackup(Backup[id].limit)
            /\ (Backup[id].live => LiveInBackup(Backup[id].limit))
        /\ Backup[id].autopay # None => InBackup(Backup[id].autopay)
        /\ id \in Inv /\ Backup[id].live => \A a \in Pair(id) : LiveInBackup(a)

\* What the parameters have to satisfy.  Ids are of one table each.
AccountsAssumption ==
    /\ \A i, j \in 1..5 : i # j => Tables[i] \cap Tables[j] = {}
    /\ Card \subseteq Account
    /\ Equity \in Account \ Card
    /\ Settlement \in [Inv -> Account \ Card]
    /\ Asset \in [Inv -> Account \ Card]
    /\ Existing \subseteq Id
    /\ Equity \in Existing
    /\ \A i \in Inv : i \in Existing <=> Pair(i) \subseteq Existing
    /\ Home \in Currency
    /\ BackupAssumption
    /\ None \notin Id \cup Txn \cup Currency \cup Row \cup Booking
    /\ Entries \subseteq SUBSET Account
    /\ MaxRequests \in Nat

VARIABLES
    row,       \* every row that was ever registered
    booked,    \* transactions: the accounts they have lines for, what they trade
    quoted,    \* the currency a security's quotes are in, None without quotes
    feed,      \* the last version of each row in change_log
    restored,  \* a backup was restored (it does not go through change_log)
    job,       \* what each worker has read and decided
    asked,     \* how many requests there were
    crossed    \* history: rows written on a check that no longer held, accounts put
               \* into a deleted group, securities whose sold shares came back

vars == <<row, booked, quoted, feed, restored, job, asked, crossed>>

Fresh == [live |-> TRUE, version |-> 1, group |-> None, limit |-> None, autopay |-> None,
          currency |-> Home]

Idle == [op |-> "idle"]

Init ==
    /\ row = [id \in Id |-> IF id \in Existing THEN Fresh ELSE None]
    /\ booked = [t \in Txn |-> None]
    /\ quoted = [s \in Security |-> None]
    /\ feed = [id \in Id |-> IF id \in Existing THEN 1 ELSE 0]
    /\ restored = FALSE
    /\ job = [w \in Worker |-> Idle]
    /\ asked = 0
    /\ crossed = {}

IsLive(id) == row[id] # None /\ row[id].live
Booked == {t \in Txn : booked[t] # None /\ booked[t].live}

\* Accounts with a line in an entry that is not deleted.
Lined(a) == \E t \in Booked : a \in booked[t].accounts

\* Shares of a security: every trade is about one.
Shares(s) == SumFunction([t \in {t \in Booked : booked[t].security = s} |-> booked[t].shares])

\* A holding's row is there from the first trade on, whatever became of it.
Holders(s) == {booked[t].inv : t \in {t \in Txn : booked[t] # None /\ booked[t].security = s}}

Set(w, j) == job' = [job EXCEPT ![w] = j]
tables == <<row, booked, quoted, feed, restored, crossed>>

-------------------------------------------------------------------------------
(***************************************************************************)
(* The checks.  A worker evaluates them when it begins; whether they still *)
(* hold when it commits is only recorded.                                  *)
(***************************************************************************)

\* What a row refers to is there and in use.  The account a card is paid from is
\* looked up without asking whether it is deleted (loadAccountInfos).
RefersToLive(cols) ==
    /\ "group" \in DOMAIN cols /\ cols.group # None => IsLive(cols.group)
    /\ "limit" \in DOMAIN cols /\ cols.limit # None => IsLive(cols.limit)
    /\ "autopay" \in DOMAIN cols /\ cols.autopay # None => row[cols.autopay] # None

Creatable(id, cols) == row[id] = None /\ RefersToLive(cols)

\* updateAccount looks up a new limit group and a new account to pay from, but not
\* a new account group: the foreign key wants it to be there, deleted or not.
Updatable(id, cols) ==
    /\ IsLive(id)
    /\ "group" \in DOMAIN cols /\ cols.group # None => row[cols.group] # None
    /\ "limit" \in DOMAIN cols /\ cols.limit # None => IsLive(cols.limit)
    /\ "autopay" \in DOMAIN cols /\ cols.autopay # None => row[cols.autopay] # None

\* Mutant: cards are not looked at.
UnreferencedByLines(id) ==
    /\ id \in Account => ~Lined(id)
    /\ id \in Inv => ~\E a \in Pair(id) : Lined(a)

\* A row may be deleted if nothing in use needs it; an account group is needed by
\* nobody, its accounts leave it.
Unreferenced(id) ==
    /\ id \in Limit => ~\E a \in Card : IsLive(a) /\ row[a].limit = id
    /\ id \in Account =>
        /\ ~Lined(id)
        /\ ~\E i \in Inv : IsLive(i) /\ id \in Pair(i)
    /\ id \in Inv => ~\E a \in Pair(id) : Lined(a)
    /\ id \in Security => Shares(id) = 0

Deletable(id) == IsLive(id) /\ Unreferenced(id)

\* Mutant: quotes do not matter.
RecurrableUnheld(s, c) == IsLive(s) /\ Holders(s) = {}

\* A security changes its currency only without quotes and without a holding in an
\* account of another currency (accounts keep theirs: all are in Home).
Recurrable(s, c) ==
    /\ IsLive(s)
    /\ c # row[s].currency => quoted[s] = None /\ (c # Home => Holders(s) = {})

\* A trade names an investment account and a security in use, of one currency; its
\* two accounts must be in use as every account of a transaction.
Tradable(i, s, shares) ==
    /\ IsLive(i)
    /\ IsLive(s)
    /\ row[s].currency = Home
    /\ \A a \in Pair(i) : IsLive(a)
    /\ Shares(s) + shares >= 0

Postable(accounts) == \A a \in accounts : IsLive(a)

\* The check of a job, for its second evaluation at the commit.
Holds(j) ==
    CASE j.op = "create" -> Creatable(j.id, j.set)
      [] j.op = "update" -> Updatable(j.id, j.set)
      [] j.op = "recur"  -> Recurrable(j.id, j.set.currency)
      [] j.op = "delete" -> Deletable(j.id)
      [] j.op = "book"   -> IF j.inv = None THEN Postable(j.accounts)
                            ELSE Tradable(j.inv, j.security, j.shares)
      [] j.op = "quote"  -> IsLive(j.id) /\ row[j.id].currency = j.currency

\* What is wrong afterwards if the check did not hold.
Involved(j) ==
    CASE j.op = "book" -> j.accounts \cup (IF j.inv = None THEN {} ELSE {j.inv, j.security})
      [] OTHER -> {j.id}

Crossing(j) == IF Holds(j) THEN {} ELSE Involved(j)

-------------------------------------------------------------------------------

Start(w) == job[w] = Idle /\ asked < MaxRequests /\ asked' = asked + 1

\* createAccountGroup, createLimitGroup, createSecurity
BeginCreate(w, id) ==
    /\ Start(w)
    /\ id \in Group \cup Limit \cup Security
    /\ Creatable(id, <<>>)
    /\ Set(w, [op |-> "create", id |-> id, set |-> <<>>, opening |-> None])
    /\ UNCHANGED tables

\* createAccount, with the columns of a card, and with an opening balance: its
\* transaction is booked against the opening balance account.
BeginCreateAccount(w, a, cols, opening) ==
    /\ Start(w)
    /\ a \notin Paired
    /\ a \in Card \/ DOMAIN cols \subseteq {"group"}
    /\ Creatable(a, cols)
    /\ opening # None => booked[opening] = None
    /\ Set(w, [op |-> "create", id |-> a, set |-> cols, opening |-> opening])
    /\ UNCHANGED tables

\* createInvestmentAccount: the pair of accounts comes with it.
BeginCreateInvestment(w, i) ==
    /\ Start(w)
    /\ i \in Inv
    /\ Creatable(i, <<>>)
    /\ Set(w, [op |-> "create", id |-> i, set |-> <<>>, opening |-> None])
    /\ UNCHANGED tables

\* updateAccount and the other updates: the columns that are not in the request are
\* written as they were read.  A card's own columns are read after the account's
\* row has been locked by its update, so they are never stale.
BeginUpdate(w, id, cols) ==
    /\ Start(w)
    /\ DOMAIN cols \subseteq (IF id \in Card THEN {"group", "limit", "autopay"}
                              ELSE IF id \in Account THEN {"group"} ELSE {})
    /\ Updatable(id, cols)
    /\ Set(w, [op |-> "update", id |-> id, seen |-> row[id],
               set |-> IF "group" \in DOMAIN cols \/ id \notin Account THEN cols
                       ELSE [c \in {"group"} \cup DOMAIN cols |->
                                IF c = "group" THEN row[id].group ELSE cols[c]]])
    /\ UNCHANGED tables

\* updateSecurity
BeginChangeCurrency(w, s, c) ==
    /\ Start(w)
    /\ s \in Security
    /\ Recurrable(s, c)
    /\ Set(w, [op |-> "recur", id |-> s, seen |-> row[s], set |-> [currency |-> c]])
    /\ UNCHANGED tables

\* deleteAccount, deleteAccountGroup, deleteLimitGroup, deleteInvestmentAccount and
\* deleteSecurity
BeginDelete(w, id) ==
    /\ Start(w)
    /\ Deletable(id)
    /\ Set(w, [op |-> "delete", id |-> id, seen |-> row[id]])
    /\ UNCHANGED tables

\* createTransaction between accounts, or of one share.
BeginBook(w, t, accounts) ==
    /\ Start(w)
    /\ booked[t] = None
    /\ Postable(accounts)
    /\ Set(w, [op |-> "book", txn |-> t, accounts |-> accounts, inv |-> None, security |-> None,
               shares |-> 0])
    /\ UNCHANGED tables

BeginTrade(w, t, i, s, shares) ==
    /\ Start(w)
    /\ booked[t] = None
    /\ Tradable(i, s, shares)
    /\ Set(w, [op |-> "book", txn |-> t, accounts |-> Pair(i), inv |-> i, security |-> s,
               shares |-> shares])
    /\ UNCHANGED tables

\* createMarketPrice, recordProviderMarketPrice: the quote is in the currency the
\* security had when it was looked up.
BeginQuote(w, s) ==
    /\ Start(w)
    /\ IsLive(s)
    /\ quoted[s] = None
    /\ Set(w, [op |-> "quote", id |-> s, currency |-> row[s].currency])
    /\ UNCHANGED tables

-------------------------------------------------------------------------------

Patch(r, cols) == [c \in DOMAIN r |-> IF c \in DOMAIN cols THEN cols[c] ELSE r[c]]

\* Mutant: no foreign keys.
NotLookedAt(ids) == TRUE

\* Foreign keys: what a written row refers to is there, deleted or not.
Present(ids) == \A id \in ids \ {None} : row[id] # None
Targets(cols) == {cols[c] : c \in DOMAIN cols}

CommitCreate(w) ==
    LET j == job[w]
        new == {j.id} \cup (IF j.id \in Inv THEN Pair(j.id) ELSE {})
        \* the opening balance account is revived, or created
        revived == IF j.opening # None /\ ~IsLive(Equity) THEN {Equity} ELSE {}
        row2 == [id \in Id |-> IF id \in new THEN Patch(Fresh, j.set)
                               ELSE IF id \in revived
                               THEN IF row[id] = None THEN Fresh
                                    ELSE [row[id] EXCEPT !.live = TRUE, !.version = @ + 1]
                               ELSE row[id]]
    IN /\ j.op = "create"
       /\ \A id \in new : row[id] = None
       /\ Present(Targets(j.set))
       /\ j.opening # None => booked[j.opening] = None
       /\ row' = row2
       /\ feed' = [id \in Id |-> IF id \in new \cup revived THEN row2[id].version ELSE feed[id]]
       /\ booked' = IF j.opening = None THEN booked
                    ELSE [booked EXCEPT ![j.opening] =
                            [live |-> TRUE, accounts |-> {j.id, Equity}, inv |-> None,
                             security |-> None, shares |-> 0]]
       /\ crossed' = crossed \cup Crossing(j)
       /\ Set(w, Idle)
       /\ UNCHANGED <<quoted, restored, asked>>

\* A row that a restore has removed is not updated, but reported all the same.
CommitUpdate(w) ==
    LET j == job[w]
        version == j.seen.version + 1
    IN /\ j.op \in {"update", "recur"}
       /\ j.op = "update" => Present(Targets(j.set))
       /\ row' = [row EXCEPT ![j.id] = IF @ = None THEN None
                                       ELSE [Patch(@, j.set) EXCEPT !.version = version]]
       /\ feed' = [feed EXCEPT ![j.id] = version]
       /\ crossed' = crossed \cup Crossing(j)
            \cup (IF "group" \in DOMAIN j.set /\ j.set.group # None /\ ~IsLive(j.set.group)
                  THEN {j.id} ELSE {})
       /\ Set(w, Idle)
       /\ UNCHANGED <<booked, quoted, restored, asked>>

\* Mutant: the accounts that leave the group are not reported.
OnlyTheRow(id, leaving) == {id}

\* recordChange is called for every row the deletion changes.
Reported(id, leaving) == {id} \cup leaving

\* The accounts of a deleted group leave it, deleted ones too, each under the next
\* version of its own.
CommitDelete(w) ==
    LET j == job[w]
        leaving == {a \in Account : row[a] # None /\ row[a].group = j.id}
        row2 == [id \in Id |->
                    IF row[id] = None THEN None
                    ELSE IF id = j.id THEN [row[id] EXCEPT !.live = FALSE, !.version = j.seen.version + 1]
                    ELSE IF id \in leaving THEN [row[id] EXCEPT !.group = None, !.version = @ + 1]
                    ELSE row[id]]
    IN /\ j.op = "delete"
       /\ row' = row2
       /\ feed' = [id \in Id |-> IF id \notin Reported(j.id, leaving) THEN feed[id]
                                 ELSE IF id = j.id THEN j.seen.version + 1 ELSE row2[id].version]
       /\ crossed' = crossed \cup Crossing(j)
       /\ Set(w, Idle)
       /\ UNCHANGED <<booked, quoted, restored, asked>>

CommitBook(w) ==
    LET j == job[w] IN
    /\ j.op = "book"
    /\ booked[j.txn] = None
    /\ Present(j.accounts \cup {j.security})
    /\ booked' = [booked EXCEPT ![j.txn] = [live |-> TRUE, accounts |-> j.accounts,
                    inv |-> j.inv, security |-> j.security, shares |-> j.shares]]
    /\ crossed' = crossed \cup Crossing(j)
    /\ Set(w, Idle)
    /\ UNCHANGED <<row, quoted, feed, restored, asked>>

CommitQuote(w) ==
    LET j == job[w] IN
    /\ j.op = "quote"
    /\ Present({j.id})
    /\ quoted' = [quoted EXCEPT ![j.id] = j.currency]
    /\ crossed' = crossed \cup Crossing(j)
    /\ Set(w, Idle)
    /\ UNCHANGED <<row, booked, feed, restored, asked>>

\* deleteTransaction, as far as it matters here: its lines go, and a trade is
\* replayed, which needs shares for every sale that is left.  Nobody asks whether
\* the security is still in use.
Unbook(t) ==
    LET s == booked[t].security IN
    /\ t \in Booked
    /\ s # None => Shares(s) - booked[t].shares >= 0
    /\ booked' = [booked EXCEPT ![t].live = FALSE]
    /\ crossed' = crossed \cup (IF s # None /\ ~IsLive(s) THEN {s} ELSE {})
    /\ UNCHANGED <<row, quoted, feed, restored, job, asked>>

Fail(w) ==
    /\ job[w] # Idle
    /\ Set(w, Idle)
    /\ UNCHANGED <<tables, asked>>

\* restoreAllData: refused for a ledger that has transactions, deleted ones too.  A
\* backup replaces every row in one transaction, and a transaction that is
\* booked in between keeps an account from being deleted: the restore fails then.
Restore ==
    /\ ~restored
    /\ \A t \in Txn : booked[t] = None
    /\ row' = [id \in Id |-> IF id \in DOMAIN Backup THEN Backup[id] ELSE None]
    /\ quoted' = [s \in Security |-> None]
    /\ restored' = TRUE
    /\ UNCHANGED <<booked, feed, job, asked, crossed>>

\* What a client may ask for, of every kind.
Register(w) ==
    \/ \E id \in Group \cup Limit \cup Security : BeginCreate(w, id)
    \/ \E i \in Inv : BeginCreateInvestment(w, i)
    \/ \E a \in Account, opening \in Txn \cup {None} : \E g \in Group \cup {None} :
            BeginCreateAccount(w, a, [group |-> g], opening)
    \/ \E c \in Card, l \in Limit, p \in Account :
            BeginCreateAccount(w, c, [limit |-> l, autopay |-> p], None)

Change(w) ==
    \/ \E id \in Id : BeginUpdate(w, id, <<>>)
    \/ \E a \in Account, g \in Group \cup {None} : BeginUpdate(w, a, [group |-> g])
    \/ \E c \in Card, l \in Limit \cup {None} : BeginUpdate(w, c, [limit |-> l])
    \/ \E s \in Security, c \in Currency : BeginChangeCurrency(w, s, c)
    \/ \E id \in Id : BeginDelete(w, id)

Use(w) ==
    \/ \E t \in Txn, accounts \in Entries : BeginBook(w, t, accounts)
    \/ \E t \in Txn, i \in Inv, s \in Security, n \in {-1, 1} : BeginTrade(w, t, i, s, n)
    \/ \E s \in Security : BeginQuote(w, s)

Commit(w) ==
    CommitCreate(w) \/ CommitUpdate(w) \/ CommitDelete(w) \/ CommitBook(w) \/ CommitQuote(w)

Next ==
    \/ \E w \in Worker : Register(w) \/ Change(w) \/ Use(w) \/ Commit(w) \/ Fail(w)
    \/ \E t \in Txn : Unbook(t)
    \/ Restore

Spec == Init /\ [][Next]_vars

-------------------------------------------------------------------------------

\* Every row has the columns of its table, and what it refers to was registered: the
\* foreign keys hold across a restore that replaces the rows between a request's
\* check and its commit.
TypeOK ==
    /\ row \in [Id -> Row \cup {None}]
    /\ booked \in [Txn -> Booking \cup {None}]
    /\ quoted \in [Security -> Currency \cup {None}]
    /\ feed \in [Id -> Nat]
    /\ restored \in BOOLEAN
    /\ asked \in 0..MaxRequests
    /\ DOMAIN job = Worker
    /\ crossed \subseteq Id
    /\ \A id \in Id : row[id] # None =>
            \A c \in {"group", "limit", "autopay"} : row[id][c] # None => row[row[id][c]] # None
    /\ \A t \in Txn : booked[t] # None =>
            \A id \in (booked[t].accounts \cup {booked[t].security}) \ {None} : row[id] # None

\* What is in use refers to what is in use: an account to its group, a card to its
\* limit group, an investment account to its two accounts, a live entry to its
\* accounts, a position to its security and its investment account.
Dangling ==
    {a \in Account : IsLive(a) /\ \E g \in {row[a].group, row[a].limit} \ {None} : ~IsLive(g)}
    \cup {i \in Inv : IsLive(i) /\ \E a \in Pair(i) : ~IsLive(a)}
    \cup {a \in Account : Lined(a) /\ ~IsLive(a)}
    \cup {i \in Inv : ~IsLive(i) /\ \E t \in Booked : booked[t].inv = i}
    \cup {s \in Security : Shares(s) > 0 /\ ~IsLive(s)}

\* No sequence of requests leaves a reference to a deleted row, other than through the
\* three gaps crossed records.
NothingDangles ==
    \A id \in Dangling :
        \/ id \in crossed
        \/ id \in Account /\ row[id] # None /\ {row[id].group, row[id].limit} \cap crossed # {}
        \/ id \in Inv /\ Pair(id) \cap crossed # {}

\* What the tests of the deletion of accounts say, whatever runs side by side: an account
\* that a live entry has a line for is not deleted.
UsedAccountsAreKept == \A a \in Account : Lined(a) => IsLive(a)

\* Every change of a row is in the change feed under the version the row has, also
\* that of an account whose group or of an opening balance account that somebody
\* else's request changed.  A restored backup is not in the feed at all.
EveryChangeIsReported ==
    restored \/ \A id \in Id : row[id] # None => feed[id] = row[id].version

\* Quotes and positions are in the currency of their security: a value is never
\* computed from a quote in another currency.
ValuesAreInOneCurrency ==
    \A s \in Security \ crossed :
        /\ quoted[s] # None => quoted[s] = row[s].currency
        /\ Holders(s) # {} => row[s].currency = Home

===============================================================================
