--------------------------- MODULE MCBrowseCache ---------------------------
(***************************************************************************)
(* Instances of BrowseCache for TLC: an entry is fresh for two units, as   *)
(* long as the slowest enumeration takes, and the clock covers both.       *)
(***************************************************************************)
EXTENDS BrowseCache

TwoUnits == 2
ClockLimit == 2 * TwoUnits
=============================================================================
