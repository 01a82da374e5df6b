------------------------------ MODULE MCCharts ------------------------------
(* Two people, two artists and four songs, one without a title, and three    *)
(* searches on 2 January, 4 and 5 February 2024: the last two are days of one *)
(* month on the two sides of a Monday, the first is in the month before, but  *)
(* not in its last 29 days. The calendar runs from 1 January 2024, a Monday,  *)
(* to 1 March 2025.                                                           *)
EXTENDS Charts, TLC

CONSTANTS ann, bob

MCPeople == {ann, bob}
MCSongs == {<<1, 0>>, <<1, 1>>, <<1, 2>>, <<2, 1>>}
MCMonthStarts == {-61, -31, 0, 31, 60, 91, 121, 152, 182, 213, 244, 274, 305, 335,
                  366, 397, 425, 456, 486}
MCCalendar == 0..425
MCDays == {1, 34, 35}
MCMaxSearches == 3

Interchangeable == Permutations(MCPeople)
=============================================================================
