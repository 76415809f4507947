------------------------------ MODULE Filters ------------------------------
(***************************************************************************)
(* filterData (main.go) in the goroutines of several pumps.  All of them   *)
(* are given the one slice of records that was decoded; a pump without an  *)
(* option uses it as it is, the others fill an array of their own with     *)
(* the records their filters let through, changed as their options say.    *)
(*                                                                         *)
(* Raw data is its form and its length: base64 of n characters is decoded  *)
(* if n is a multiple of four.                                             *)
(***************************************************************************)
EXTENDS Integers, Sequences, FiniteSets

CONSTANTS
  KeyLists,      \* slices of records [api_id, org_id, code, raw_request, raw_response]
  Options,       \* Options[s]: the choices for pump s, see Configuration
  MaxRecordSize  \* of the configuration of the process, 0 if not set

Configuration ==
  [skipAPIs : SUBSET STRING, skipOrgs : SUBSET STRING, skipCodes : SUBSET Int,
   APIs : SUBSET STRING, orgs : SUBSET STRING, codes : SUBSET Int,
   omit : BOOLEAN, size : Nat, ignore : SUBSET STRING, decodeRequest : BOOLEAN, decodeResponse : BOOLEAN]

RawData    == [form : {"plain", "base64"}, length : Nat]
DecodedKey == [api_id : STRING, org_id : STRING, code : Int, raw_request : RawData, raw_response : RawData]

ASSUME FiltersAssumption ==
  /\ \A keys \in KeyLists : keys \in Seq(DecodedKey)
  /\ 0 \notin DOMAIN Options
  /\ \A s \in DOMAIN Options : \A o \in Options[s] : o \in Configuration
  /\ MaxRecordSize \in Nat

FilterPump == DOMAIN Options
Shared     == 0       \* the array of the slice all pumps are given

VARIABLES
  decoded,   \* history: the records as they were decoded
  option,    \* option[s]: the configuration of pump s
  arrays,    \* arrays[a]: what is in array a, Shared or that of a pump
  filtering  \* filtering[s]: [step, array, key, length] of filterData

filterVars == <<decoded, option, arrays, filtering>>

FiltersInit ==
  /\ decoded \in KeyLists
  /\ option \in {f \in [FilterPump -> UNION {Options[s] : s \in FilterPump}] :
                   \A s \in FilterPump : f[s] \in Options[s]}
  /\ arrays = [a \in FilterPump \cup {Shared} |-> IF a = Shared THEN decoded ELSE <<>>]
  /\ filtering = [s \in FilterPump |-> [step |-> "new", array |-> Shared, key |-> 1, length |-> 0]]

-----------------------------------------------------------------------------
HasFilter(o) ==
  {} # UNION {o.skipAPIs, o.skipOrgs, o.APIs, o.orgs} \/ {} # o.skipCodes \cup o.codes

shouldTrim(o) == MaxRecordSize # 0 \/ o.size # 0

(* All the options are empty or false.                                      *)
PassesAll(o) ==
  ~(o.decodeRequest \/ o.decodeResponse \/ HasFilter(o) \/ o.omit \/ shouldTrim(o) \/ o.ignore # {})

ShouldFilter(o, r) ==
  \/ r.api_id \in o.skipAPIs
  \/ r.org_id \in o.skipOrgs
  \/ r.code \in o.skipCodes
  \/ o.APIs # {} /\ r.api_id \notin o.APIs
  \/ o.orgs # {} /\ r.org_id \notin o.orgs
  \/ o.codes # {} /\ r.code \notin o.codes

Empty == [form |-> "plain", length |-> 0]

Trimmed(size, raw) == [raw EXCEPT !.length = IF @ < size THEN @ ELSE size]

Base64Decoded(raw) ==
  IF raw.form = "base64" /\ raw.length % 4 = 0
  THEN [form |-> "plain", length |-> 3 * (raw.length \div 4)]
  ELSE raw

OmitOrTrim(o, r) ==
  IF o.omit THEN [r EXCEPT !.raw_request = Empty, !.raw_response = Empty]
  ELSE IF ~shouldTrim(o) THEN r
  ELSE LET size == IF o.size # 0 THEN o.size ELSE MaxRecordSize
       IN [r EXCEPT !.raw_request = Trimmed(size, @), !.raw_response = Trimmed(size, @)]

ZeroOf(field) == IF field = "code" THEN 0 ELSE IF field \in {"raw_request", "raw_response"} THEN Empty ELSE ""

RemoveIgnoredFields(o, r) == [f \in DOMAIN r |-> IF f \in o.ignore THEN ZeroOf(f) ELSE r[f]]

Changed(o, r) ==
  LET kept == RemoveIgnoredFields(o, OmitOrTrim(o, r))
  IN [kept EXCEPT !.raw_request  = IF o.decodeRequest THEN Base64Decoded(@) ELSE @,
                  !.raw_response = IF o.decodeResponse THEN Base64Decoded(@) ELSE @]

-----------------------------------------------------------------------------
FilterStep(s, step) == filtering[s].step = step

PassKeys(s) ==
  /\ FilterStep(s, "new") /\ PassesAll(option[s])
  /\ filtering' = [filtering EXCEPT ![s].step = "return", ![s].length = Len(arrays[Shared])]
  /\ UNCHANGED <<decoded, option, arrays>>

(* Mistake: filteredKeys begins as keys[:0].                                *)
CopyKeysNot(s) ==
  /\ FilterStep(s, "new") /\ ~PassesAll(option[s])
  /\ filtering' = [filtering EXCEPT ![s].step = "range"]
  /\ UNCHANGED <<decoded, option, arrays>>

CopyKeys(s) ==
  /\ FilterStep(s, "new") /\ ~PassesAll(option[s])
  /\ arrays' = [arrays EXCEPT ![s] = arrays[Shared]]
  /\ filtering' = [filtering EXCEPT ![s].step = "range", ![s].array = s]
  /\ UNCHANGED <<decoded, option>>

(* The loop ranges over the shared slice.                                   *)
FilterKey(s) ==
  LET f == filtering[s]
      o == option[s]
  IN /\ f.step = "range" /\ f.key <= Len(arrays[Shared])
     /\ LET r == arrays[Shared][f.key]
        IN IF ShouldFilter(o, OmitOrTrim(o, r))
           THEN /\ filtering' = [filtering EXCEPT ![s].key = @ + 1]
                /\ UNCHANGED arrays
           ELSE /\ arrays' = [arrays EXCEPT ![f.array][f.length + 1] = Changed(o, r)]
                /\ filtering' = [filtering EXCEPT ![s].key = @ + 1, ![s].length = @ + 1]
     /\ UNCHANGED <<decoded, option>>

FilteredKeys(s) ==
  /\ FilterStep(s, "range") /\ filtering[s].key > Len(arrays[Shared])
  /\ filtering' = [filtering EXCEPT ![s].step = "return"]
  /\ UNCHANGED <<decoded, option, arrays>>

FiltersNext == \E s \in FilterPump : PassKeys(s) \/ CopyKeys(s) \/ FilterKey(s) \/ FilteredKeys(s)

FiltersSpec == FiltersInit /\ [][FiltersNext]_filterVars

-----------------------------------------------------------------------------
FiltersTypeOK ==
  /\ \A s \in FilterPump : /\ filtering[s].step \in {"new", "range", "return"}
                           /\ filtering[s].array \in {Shared, s}
                           /\ filtering[s].length \in 0 .. Len(decoded)
  /\ \A a \in DOMAIN arrays : Len(arrays[a]) \in {0, Len(decoded)}

Allowed(o, r) ==
  /\ o.APIs = {} \/ r.api_id \in o.APIs
  /\ o.orgs = {} \/ r.org_id \in o.orgs
  /\ o.codes = {} \/ r.code \in o.codes
  /\ r.api_id \notin o.skipAPIs /\ r.org_id \notin o.skipOrgs /\ r.code \notin o.skipCodes

(* Those of the first k records that a pump is to get.                      *)
Passing(o, k) == {j \in 1 .. k : Allowed(o, decoded[j])}

(* What a pump may see of raw data.                                         *)
Admissible(o, field, raw, of) ==
  /\ o.omit \/ field \in o.ignore => raw = Empty
  /\ o.size > 0 => raw.length <= o.size
  /\ o.size = 0 /\ MaxRecordSize > 0 => raw.length <= MaxRecordSize
  /\ ~(o.omit \/ shouldTrim(o) \/ field \in o.ignore) =>
       raw \in {of, IF (IF field = "raw_request" THEN o.decodeRequest ELSE o.decodeResponse)
                    THEN Base64Decoded(of) ELSE of}

(* Whatever the other pumps are configured to, a pump gets the records its  *)
(* own filters allow, all of them, in order and judged by what the gateway  *)
(* sent, without the fields it ignores and with no more raw data than its   *)
(* limit; a pump without options sees what was decoded (filterData,         *)
(* main.go:379-433).                                                        *)
FiltersKeepApart ==
  /\ FiltersTypeOK
  /\ \A s \in FilterPump : FilterStep(s, "return") =>
       LET o   == option[s]
           all == Passing(o, Len(decoded))
           out == arrays[filtering[s].array]
       IN /\ filtering[s].length = Cardinality(all)
          /\ \A k \in all :
               LET got  == out[Cardinality(Passing(o, k))]
                   want == decoded[k]
               IN /\ \A f \in {"api_id", "org_id", "code"} :
                       got[f] = IF f \in o.ignore THEN ZeroOf(f) ELSE want[f]
                  /\ \A f \in {"raw_request", "raw_response"} : Admissible(o, f, got[f], want[f])
=============================================================================
