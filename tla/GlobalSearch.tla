---------------------------- MODULE GlobalSearch ----------------------------
(***************************************************************************)
(* Search in every open file (gpui panels/global_search.rs): a scan runs on *)
(* a background thread under a serial number; typing changes the query,     *)
(* clears the list and moves the serial on, and a scan that ends under an   *)
(* old serial is thrown away.  Enter during a scan does nothing.           *)
(***************************************************************************)
EXTENDS Naturals, Sequences

CONSTANTS
    Queries,     \* what the user types; NoPattern does not parse
    NoPattern,
    MaxSerial    \* bound: serial numbers explored

ASSUME SearchConstants == NoPattern \in Queries /\ MaxSerial \in Nat

VARIABLES
    query,           \* the query, and the pattern it stands for
    search_serial,
    scan,            \* the scan in flight, if any: its serial and its pattern
    matches          \* the list shown, if any: the pattern it was found for

searchVars == <<query, search_serial, scan, matches>>

SearchInit ==
    /\ query = NoPattern
    /\ search_serial = 0
    /\ scan = << >>
    /\ matches = << >>

(* Bug: the serial stays where it was. *)
RefreshKeepsSerial ==
    /\ search_serial < MaxSerial
    /\ \E q \in Queries : query' = q
    /\ matches' = << >>
    /\ UNCHANGED <<search_serial, scan>>

(* refresh, after any change of the query or of how it is read. *)
Refresh ==
    /\ search_serial < MaxSerial
    /\ \E q \in Queries : query' = q
    /\ search_serial' = search_serial + 1
    /\ matches' = << >>
    /\ UNCHANGED scan

(* run, on Enter. *)
RunSearch ==
    /\ search_serial < MaxSerial
    /\ \/ /\ query = NoPattern
          /\ matches' = << >>
          /\ UNCHANGED scan
       \/ /\ query # NoPattern /\ scan = << >>
          /\ scan' = <<[serial |-> search_serial + 1, pattern |-> query]>>
          /\ UNCHANGED matches
    /\ search_serial' = search_serial + 1
    /\ UNCHANGED query

(* The completion handler. *)
FinishScan ==
    /\ scan # << >>
    /\ scan' = << >>
    /\ matches' = IF scan[1].serial = search_serial THEN <<scan[1].pattern>> ELSE matches
    /\ UNCHANGED <<query, search_serial>>

(* The matches listed were found for the pattern in the query box: a jump   *)
(* selects as many bytes as that pattern has (refresh, run, jump_to_row).   *)
MatchesAreOfQuery == \A i \in 1 .. Len(matches) : matches[i] = query

=============================================================================
