--------------------------------- MODULE Ledger ---------------------------------
(* The ledger: internal/accounting/journal.go posts an entry line by line in one transaction,   *)
(* converting amounts between currencies (internal/currency), and reports.go draws the balance   *)
(* sheet up of it with one query per type of account.  Accounts are switched on and off and       *)
(* exchange rates entered meanwhile.  One firm, one posting and one report at a time.              *)
(*                                                                                                 *)
(* Transactions read what is committed when a statement begins (READ COMMITTED).  Amounts count    *)
(* ten-thousandths, the column's scale, and rates halves; the sheet is as of the end of the day,   *)
(* so that all entries are within it.                                                               *)
EXTENDS Integers, Sequences, Functions

CONSTANTS
    Accounts,   \* codes of accounts
    Type,       \* the type of each
    Money,      \* the currency of each
    Drafts,     \* what is asked to be posted: lines [account, side, amount, currency]
    Rates,      \* exchange rates, in halves
    Entries,    \* how many entries are posted (a bound)
    NoDraft     \* no posting; no currency; no rate on file

Types == <<"asset", "liability", "equity", "revenue", "expense">>
Currencies == {Money[a] : a \in Accounts}
Line == [account : Accounts, side : {"debit", "credit"}, amount : Nat, currency : Currencies \cup {NoDraft}]

\* validateLines.
ASSUME DraftsAssumption == \A d \in Drafts : d \in Seq(Line) /\ Len(d) >= 2
ASSUME ChartAssumption == Type \in [Accounts -> Range(Types)] /\ Rates \subseteq Nat \ {0} /\ Entries \in Nat

VARIABLES
    active,     \* the accounts that are active
    rate,       \* the exchange rate in force for a pair of currencies
    posting,    \* the entry being posted: its draft, the amounts stored so far
    ledger,     \* the entries committed, as stored
    sheet       \* the balance sheet being drawn up: the totals read so far, by type; its verdict

ledgerVars == <<active, rate, posting, ledger, sheet>>

NoPosting == [draft |-> NoDraft, stored |-> <<>>]
Blank == [open |-> FALSE, totals |-> <<>>, alone |-> TRUE]

\* The types of the variables.
LedgerTypeOK ==
    /\ active \subseteq Accounts
    /\ rate \in [Currencies \X Currencies -> Rates \cup {NoDraft}]
    /\ posting \in [draft : Drafts \cup {NoDraft}, stored : Seq(Line)]
    /\ ledger \in Seq(Seq(Line)) /\ Len(ledger) <= Entries
    /\ sheet \in [open : BOOLEAN, totals : Seq(Int), alone : BOOLEAN]

LedgerInit ==
    /\ active = Accounts
    /\ rate = [p \in Currencies \X Currencies |-> NoDraft]
    /\ posting = NoPosting
    /\ ledger = <<>>
    /\ sheet = Blank

\* What the lines of an account type come to: debits minus credits.
Signed(l) == IF l.side = "debit" THEN l.amount ELSE -l.amount
Sum(lines) == SumFunction([k \in DOMAIN lines |-> Signed(lines[k])])
OfType(t, lines) == SumFunction([k \in DOMAIN lines |-> IF Type[lines[k].account] = t THEN Signed(lines[k]) ELSE 0])
TypeTotal(t) == SumFunction([e \in DOMAIN ledger |-> OfType(t, ledger[e])])

--------------------------------------------------------------------------------
(* The platform's and the owners' settings.                                      *)

\* CreateRate: a rate takes effect, or one ends at its valid_to.
RateChanges(from, to, r) ==
    /\ from # to
    /\ rate' = [rate EXCEPT ![<<from, to>>] = r]
    /\ UNCHANGED <<active, posting, ledger, sheet>>

\* UpdateAccount.
SwitchAccount(a) ==
    /\ active' = IF a \in active THEN active \ {a} ELSE active \cup {a}
    /\ UNCHANGED <<rate, posting, ledger, sheet>>

--------------------------------------------------------------------------------
(* PostJournalEntryTx.                                                           *)

BeginEntry(d) ==
    /\ posting = NoPosting /\ Len(ledger) < Entries
    /\ posting' = [draft |-> d, stored |-> <<>>]
    /\ UNCHANGED <<active, rate, ledger, sheet>>

Current == posting.draft[Len(posting.stored) + 1]
Missing == posting # NoPosting /\ Len(posting.stored) < Len(posting.draft)

\* ConvertAmountTx into the account's currency, rounded half up at the scale; one for one if
\* there is no rate.
Converted(l) ==
    IF l.currency = NoDraft \/ rate[<<l.currency, Money[l.account]>>] = NoDraft THEN l.amount
    ELSE (l.amount * rate[<<l.currency, Money[l.account]>>] + 1) \div 2

\* One line: its account looked up, its amount converted, the row inserted; an inactive account,
\* or an amount that rounds to nothing, undoes the entry.
StoreLine ==
    /\ Missing
    /\ posting' = IF Current.account \in active /\ Converted(Current) > 0
                  THEN [posting EXCEPT !.stored = Append(@, [Current EXCEPT !.amount = Converted(Current),
                                                                            !.currency = Money[Current.account]])]
                  ELSE NoPosting
    /\ UNCHANGED <<active, rate, ledger, sheet>>

\* Mutant: the balance is checked on the amounts asked for.
CommitIfAskedBalanced ==
    /\ posting # NoPosting /\ ~Missing
    /\ ledger' = IF Sum(posting.draft) = 0 THEN Append(ledger, posting.stored) ELSE ledger
    /\ sheet' = [sheet EXCEPT !.alone = @ /\ Sum(posting.draft) # 0]
    /\ posting' = NoPosting
    /\ UNCHANGED <<active, rate>>

\* The balance check on the rows inserted, and the commit.
CommitIfBalanced ==
    /\ posting # NoPosting /\ ~Missing
    /\ ledger' = IF Sum(posting.stored) = 0 THEN Append(ledger, posting.stored) ELSE ledger
    /\ sheet' = [sheet EXCEPT !.alone = @ /\ Sum(posting.stored) # 0]
    /\ posting' = NoPosting
    /\ UNCHANGED <<active, rate>>

--------------------------------------------------------------------------------
(* GetBalanceSheet.                                                              *)

OpenSheet ==
    /\ ~sheet.open
    /\ sheet' = [Blank EXCEPT !.open = TRUE]
    /\ UNCHANGED <<active, rate, posting, ledger>>

\* reportAccountRows, for the next type.
ReadType ==
    /\ sheet.open /\ Len(sheet.totals) < Len(Types)
    /\ sheet' = [sheet EXCEPT !.totals = Append(@, TypeTotal(Types[Len(@) + 1]))]
    /\ UNCHANGED <<active, rate, posting, ledger>>

Complete == Len(sheet.totals) = Len(Types)

CloseSheet ==
    /\ sheet.open /\ Complete
    /\ sheet' = Blank
    /\ UNCHANGED <<active, rate, posting, ledger>>

\* Assets minus (liabilities plus equity plus revenue minus expenses), credits being negative here.
Difference == SumFunction(sheet.totals)

LedgerStep ==
    \/ \E from, to \in Currencies, r \in Rates \cup {NoDraft} : RateChanges(from, to, r)
    \/ \E a \in Accounts : SwitchAccount(a)
    \/ \E d \in Drafts : BeginEntry(d)
    \/ StoreLine \/ CommitIfBalanced
    \/ OpenSheet \/ ReadType \/ CloseSheet
LedgerSpec == LedgerInit /\ [][LedgerStep]_ledgerVars

--------------------------------------------------------------------------------

\* A sheet no entry was committed under says that the books balance, whatever the currencies, the
\* roundings and the rates that changed between two lines of an entry: the check of
\* PostJournalEntryTx is made on what is stored (journal.go:252-276), and the earnings complete
\* the equity (reports.go:384).
QuietSheetBalances == Complete /\ sheet.alone => Difference = 0

================================================================================
