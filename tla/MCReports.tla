----------------------------- MODULE MCReports -----------------------------
(***************************************************************************)
(* The calendar from 1403 on, a day at a time; the figures of the reports  *)
(* over two days of documents; and the report page under refreshes that    *)
(* overlap: three worlds that do not interact.                             *)
(***************************************************************************)
EXTENDS Calendar, TLC

CONSTANTS Worlds, c1, c2, p1, p2, p3, None

VARIABLES world, invoices, expenses, buyPrice, filter, custom, typed, tab, cache, refreshes, page,
          printed

reportVars == <<invoices, expenses, buyPrice, filter, custom, typed, tab, cache, refreshes, page,
                printed>>

\* Two days and the periods made of them.
Figures == INSTANCE SalesReports
  WITH Contacts <- {c1, c2}, Products <- {p3}, Days <- {1, 2},
       Periods <- {{1}, {2}, {1, 2}}, MaxDocs <- 2, MaxRefreshes <- 0, Impatient <- FALSE

Page == INSTANCE SalesReports
  WITH Contacts <- {c1, c2}, Products <- {p1, p2}, Days <- {1, 2},
       Periods <- {{1}, {1, 2}}, MaxDocs <- 0, MaxRefreshes <- 2, Impatient <- FALSE

ASSUME Figures!BoundsAssumption /\ Page!BoundsAssumption

WorldInit ==
  /\ world \in Worlds /\ Init
  /\ IF world = "figures" THEN Figures!Init ELSE Page!Init

WorldNext ==
  /\ UNCHANGED world
  /\ \/ world = "calendar" /\ Next /\ UNCHANGED reportVars
     \/ world = "figures" /\ Figures!NextDocument /\ UNCHANGED vars
     \/ world = "page" /\ Page!NextView /\ UNCHANGED vars

WorldSpec == WorldInit /\ [][WorldNext]_<<world, vars, reportVars>>

ReportSymmetry == Permutations({c1, c2}) \cup Permutations({p1, p2})

-----------------------------------------------------------------------------
(* On every day of five years, leap years included: the two clocks name    *)
(* the same day, a date is accepted exactly when it exists, stamps are,    *)
(* the windows of a report and a cheque's due day are the days meant, and  *)
(* the columns of a chart share them out (Formatters.js:40-160,            *)
(* ReportController.js:40-120).                                            *)
CalendarExact ==
  /\ [](world = "calendar" =>
          /\ ClocksAgree /\ AcceptsExactly /\ StampsAccepted
          /\ WindowsExact /\ DueByTheDay /\ ColumnsPartition)
  /\ [][world = "calendar" => WindowsSlideStep]_<<world, vars>>

(* Customers, a statement and costs add up to the documents of the period, *)
(* a print is the tab it prints, and once the refreshes have ended a page  *)
(* shows the figures of the filter it names (ReportController.js:125-330,  *)
(* ReportsView.js:80-220).                                                 *)
ReportsSound ==
  /\ world = "figures" => /\ Figures!CustomersFoot /\ Figures!StatementFoots
                          /\ Figures!PrintIsTheTabs /\ Figures!CostsFoot
  /\ world = "page" => Page!TypeOK /\ Page!QuietShowsFilter /\ Page!QuietNamesItsFigures
=============================================================================
