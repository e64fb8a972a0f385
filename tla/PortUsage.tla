----------------------------- MODULE PortUsage -----------------------------
(***************************************************************************)
(* The port-usage publisher of one node (port_usage/port_usage.go).       *)
(*                                                                         *)
(* Every minute PrintPort reads the enablePrintPort switch, Gets (or       *)
(* Creates) the node's cloud-provider-port-usage ConfigMap, reads the port *)
(* ranges from the annotations of the MPD controller's ConfigMap, tries to *)
(* bind every port of those ranges, and Updates the ConfigMap with the     *)
(* ports it could not bind when that set differs from the one it read.     *)
(* The tick is split at its remote calls, so the ports in use, the ranges *)
(* and the API server change between them.                                 *)
(*                                                                         *)
(* An annotation value is a sequence of tokens: a port number written    *)
(* "0".."9" (a run of digits read as one token), "-", " " or "x" (any     *)
(* other character).                                                       *)
(***************************************************************************)
EXTENDS Integers, SequencesExt

CONSTANTS
    Ports,          \* the port numbers a range may name, e.g. 1..3
    Values,         \* the annotation values the MPD ConfigMap may hold
    SwitchValues,   \* the enablePrintPort values controller-config may hold
    ApiMayFail,     \* the API server may be unavailable
    HostMayChange,  \* ports are taken and released, the ranges are edited
    MaxEdits        \* bound on those changes: the host eventually settles

VARIABLES
    switch,         \* controller-config's enablePrintPort value, <<>> if absent
    annotations,    \* the values of the MPD ConfigMap's annotations
    used,           \* the ports some process on the host listens on
    apiUp,          \* the API server answers
    cm,             \* the port-usage ConfigMap: [exists, data]
    pc,             \* PrintPort's position: "idle", "get", "mark", "scan", "update"
    seen,           \* cm.Data as PrintPort read it
    ranges,         \* markUnPrintPort's result
    found,          \* scanRangePort's result
    span,           \* history: the ports the configured ranges cover at "mark"
    edits           \* history: host changes so far, at most MaxEdits

env == <<switch, annotations, used, apiUp, edits>>
task == <<pc, seen, ranges, found, span>>
vars == <<env, cm, task>>

PortRange == [Start: Int, End: Int]

-----------------------------------------------------------------------------
(* parseRange, token by token.                                             *)

\* strings.TrimSpace.
Trim(s) ==
    LET first == SelectInSeq(s, LAMBDA t : t # " ")
        last  == SelectLastInSeq(s, LAMBDA t : t # " ")
    IN IF first = 0 THEN <<>> ELSE SubSeq(s, first, last)

Numeral == <<"0", "1", "2", "3", "4", "5", "6", "7", "8", "9">>
IsNumber(t) == \E n \in DOMAIN Numeral : Numeral[n] = t
NumVal(t) == (CHOOSE n \in DOMAIN Numeral : Numeral[n] = t) - 1

\* strconv.Atoi: an optional sign and one number; anything else fails.
Atoi(s) ==
    CASE Len(s) = 1 /\ IsNumber(s[1]) -> [ok |-> TRUE, val |-> NumVal(s[1])]
      [] Len(s) = 2 /\ s[1] = "-" /\ IsNumber(s[2]) -> [ok |-> TRUE, val |-> -NumVal(s[2])]
      [] OTHER -> [ok |-> FALSE, val |-> 0]

\* strings.Split(s, "-").
Split(s) ==
    LET cut(acc, t) == IF t = "-" THEN Append(acc, <<>>)
                       ELSE [acc EXCEPT ![Len(acc)] = Append(@, t)]
    IN FoldLeft(cut, <<<<>>>>, s)

\* util.ReduceArray: every part trimmed, the blank ones dropped.
ReduceArray(parts) ==
    SelectSeq([i \in DOMAIN parts |-> Trim(parts[i])], LAMBDA p : p # <<>>)

Zero == [Start |-> 0, End |-> 0]

\* Mutant: a descending range is kept as written.
ParseRangeNoSwap(v) ==
    LET t == Trim(v)
        parts == ReduceArray(Split(t))
        l == Atoi(parts[1]).val
        r == Atoi(parts[2]).val
    IN CASE Atoi(t).ok -> [Start |-> Atoi(t).val, End |-> Atoi(t).val]
         [] Len(parts) # 2 \/ ~Atoi(parts[1]).ok \/ ~Atoi(parts[2]).ok -> Zero
         [] OTHER -> [Start |-> l, End |-> r]

\* parseRange: one integer is a one-port range; otherwise exactly two
\* integers between dashes, clamped at 0 and put in ascending order.
ParseRange(v) ==
    LET t == Trim(v)
        parts == ReduceArray(Split(t))
        l == IF Atoi(parts[1]).val < 0 THEN 0 ELSE Atoi(parts[1]).val
        r == IF Atoi(parts[2]).val < 0 THEN 0 ELSE Atoi(parts[2]).val
    IN CASE Atoi(t).ok -> [Start |-> Atoi(t).val, End |-> Atoi(t).val]
         [] Len(parts) # 2 \/ ~Atoi(parts[1]).ok \/ ~Atoi(parts[2]).ok -> Zero
         [] l <= r -> [Start |-> l, End |-> r]
         [] OTHER -> [Start |-> r, End |-> l]

\* Every annotation value parsed once (a constant, evaluated once by TLC).
Parsed == [v \in Values |-> ParseRange(v)]

\* markUnPrintPort's loop: the parsed ranges, less those starting at 0.
Configured(vals) == {r \in {Parsed[v] : v \in vals} : r.Start # 0}

\* Mutant: every scanned port is reported, whatever isPortAvailable says.
ScanRangePortIgnoresBind(rs, u) == UNION {r.Start .. (r.End - 1) : r \in rs}

\* isPortAvailable: a listen on 0.0.0.0 fails while another process holds
\* the port.
IsPortAvailable(p, u) == p \notin u

\* scanRangePort: every port from Start up to, not including, End that
\* isPortAvailable cannot listen on.
ScanRangePort(rs, u) ==
    {p \in Ports : (\E r \in rs : r.Start <= p /\ p < r.End) /\ ~IsPortAvailable(p, u)}

\* The ports the scan would look at.
Covered(rs) == ScanRangePort(rs, Ports)

TypeOK ==
    /\ switch \in SwitchValues /\ apiUp \in BOOLEAN
    /\ annotations \subseteq Values /\ used \subseteq Ports
    /\ cm \in [exists: BOOLEAN, data: SUBSET Ports]
    /\ pc \in {"idle", "get", "mark", "scan", "update"}
    /\ seen \subseteq Ports /\ found \subseteq Ports /\ span \subseteq Ports
    /\ ranges \subseteq PortRange
    /\ edits \in 0..MaxEdits

\* Any host and cluster: the ConfigMap may be left from an earlier run.
Init ==
    /\ switch \in SwitchValues
    /\ annotations \in SUBSET Values
    /\ used \in SUBSET Ports
    /\ apiUp \in IF ApiMayFail THEN BOOLEAN ELSE {TRUE}
    /\ cm \in [exists: BOOLEAN, data: SUBSET Ports] /\ (~cm.exists => cm.data = {})
    /\ pc = "idle"
    /\ seen = {} /\ ranges = {} /\ found = {} /\ span = {}
    /\ edits = 0

-----------------------------------------------------------------------------
(* parseMapItemToBoolWithDefault, character by character.                 *)

\* The letters of the recognized words, in lower and upper case.
Lower == <<"a", "e", "f", "l", "n", "o", "r", "s", "t", "u", "y">>
Upper == <<"A", "E", "F", "L", "N", "O", "R", "S", "T", "U", "Y">>

\* strings.ToUpper.
ToUpper(s) ==
    [i \in DOMAIN s |-> IF \E k \in DOMAIN Lower : Lower[k] = s[i]
                        THEN Upper[CHOOSE k \in DOMAIN Lower : Lower[k] = s[i]]
                        ELSE s[i]]

TrueWords == {<<"1">>, <<"T">>, <<"Y">>, <<"T", "R", "U", "E">>, <<"Y", "E", "S">>}
FalseWords == {<<"0">>, <<"F">>, <<"N">>, <<"F", "A", "L", "S", "E">>, <<"N", "O">>}

\* Mutant: an unexpected word is false whatever the default.
ParseBoolIgnoresDefault(v, default) ==
    IF v = <<>> THEN default ELSE ToUpper(Trim(v)) \in TrueWords

\* parseMapItemToBoolWithDefault: an absent or empty value is the default; a
\* truthy word is true; with a true default only a falsy word is false.
ParseMapItemToBoolWithDefault(v, default) ==
    LET t == ToUpper(Trim(v))
    IN CASE v = <<>> -> default
         [] t \in TrueWords -> TRUE
         [] default -> t \notin FalseWords
         [] OTHER -> FALSE

\* Spec section 4.4, as a reference: ignoring case and surrounding blanks, a
\* recognized truthy word is true, a recognized falsy word is false, and
\* anything else is the default.
RefBool(v, default) ==
    LET w == {i \in DOMAIN v : v[i] # " "}
        word == IF w = {} THEN <<>> ELSE ToUpper(SubSeq(v, Min(w), Max(w)))
    IN IF word \in TrueWords THEN TRUE
       ELSE IF word \in FalseWords THEN FALSE ELSE default

\* GetControllerConfig's EnablePrintPort, parsed once per value.
SwitchParsed == [v \in SwitchValues |-> ParseMapItemToBoolWithDefault(v, TRUE)]
EnablePrintPort == SwitchParsed[switch]

-----------------------------------------------------------------------------
(* The host and the cluster.                                               *)

HostEdit == HostMayChange /\ edits < MaxEdits /\ edits' = edits + 1

PortTaken(p) == HostEdit /\ p \notin used /\ used' = used \cup {p}
                /\ UNCHANGED <<switch, annotations, apiUp, cm, task>>
PortReleased(p) == HostEdit /\ p \in used /\ used' = used \ {p}
                /\ UNCHANGED <<switch, annotations, apiUp, cm, task>>
RangesEdited == HostEdit /\ annotations' \in SUBSET Values \ {annotations}
                /\ UNCHANGED <<switch, used, apiUp, cm, task>>
SwitchEdited == switch' \in SwitchValues \ {switch} /\ UNCHANGED <<annotations, used, apiUp, edits, cm, task>>
ApiToggles == ApiMayFail /\ apiUp' = ~apiUp
              /\ UNCHANGED <<switch, annotations, used, edits, cm, task>>

Environment ==
    \/ \E p \in Ports : PortTaken(p) \/ PortReleased(p)
    \/ RangesEdited \/ SwitchEdited \/ ApiToggles

-----------------------------------------------------------------------------
(* PrintPort.                                                              *)

\* checkSwitchStatus: a tick with the switch off, or without controller-config,
\* returns at once and changes nothing.
CheckSwitchStatus ==
    /\ pc = "idle"
    /\ EnablePrintPort /\ apiUp
    /\ pc' = "get"
    /\ UNCHANGED <<env, cm, seen, ranges, found, span>>

\* The Get of the port-usage ConfigMap; NotFound creates an empty one; any
\* other failure ends the tick.
GetPortConfigMap ==
    /\ pc = "get"
    /\ IF apiUp
       THEN /\ cm' = IF cm.exists THEN cm ELSE [exists |-> TRUE, data |-> {}]
            /\ seen' = cm'.data
            /\ pc' = "mark"
       ELSE pc' = "idle" /\ UNCHANGED <<cm, seen>>
    /\ UNCHANGED <<env, ranges, found, span>>

\* markUnPrintPort: the Get of the MPD ConfigMap; NotFound and any other
\* failure return no ranges, and PrintPort goes on with none.
MarkUnPrintPort ==
    /\ pc = "mark"
    /\ ranges' = IF apiUp THEN Configured(annotations) ELSE {}
    /\ span' = Covered(Configured(annotations))
    /\ pc' = "scan"
    /\ UNCHANGED <<env, cm, seen, found>>

\* scanRangePort with isPortAvailable: a listen fails on a port in use.
Scan ==
    /\ pc = "scan"
    /\ found' = ScanRangePort(ranges, used)
    /\ pc' = "update"
    /\ UNCHANGED <<env, cm, seen, ranges, span>>

\* Mutant: only added ports count as a change.
ChangedIgnoresRemoval(old, new) == new \ old # {}

\* isChanged: a key of cm.Data missing from newData, or a key of newData
\* missing from cm.Data (every value is "the port already use").
Changed(old, new) == old # new

\* The Update with newData as cm.Data, when changed; a failure is logged.
UpdatePortConfigMap ==
    /\ pc = "update"
    /\ cm' = IF Changed(seen, found) /\ apiUp THEN [cm EXCEPT !.data = found] ELSE cm
    /\ pc' = "idle"
    /\ seen' = {} /\ ranges' = {} /\ found' = {}
    /\ UNCHANGED <<env, span>>

TaskStep ==
    CheckSwitchStatus \/ GetPortConfigMap \/ MarkUnPrintPort \/ Scan \/ UpdatePortConfigMap

Next == Environment \/ TaskStep

\* wait.Until runs PrintPort every minute forever.
Spec == Init /\ [][Next]_vars /\ WF_vars(TaskStep)

-----------------------------------------------------------------------------
(* Properties.                                                             *)

\* A published used port is dropped from the ConfigMap only on evidence: the
\* tick's own scan found it free, or it lies outside every configured range.
RemovedOnlyWhenSeenFree ==
    [][\A p \in cm.data \ cm'.data : p \in span => p \in Covered(ranges) \ found]_cm

\* Once the switch stays on and the API server keeps answering (the ports in
\* use and the ranges change only MaxEdits times), the ConfigMap eventually
\* holds exactly the used ports that the configured ranges cover, and keeps
\* holding them: the change test of PrintPort notices removals and additions.
PublishedConverges ==
    <>[](EnablePrintPort /\ apiUp) =>
        <>[](cm.exists /\ cm.data = ScanRangePort(Configured(annotations), used))

\* Spec section 7, as a reference for parseRange: a value that is, up to
\* blanks, one number (possibly negative) is that one-port range; a value
\* whose only non-blank tokens are two numbers and the dashes between and
\* around them is the range between the two, smallest first; anything else
\* is the invalid range [0, 0].
RefRange(v) ==
    LET pos == {i \in DOMAIN v : IsNumber(v[i])}
        lo == Min(pos)
        hi == Max(pos)
        single(i) == \A j \in DOMAIN v \ {i} : v[j] = " " \/ (j = i - 1 /\ v[j] = "-")
    IN CASE Cardinality(pos) = 1 /\ single(lo) ->
              LET n == IF lo > 1 /\ v[lo - 1] = "-" THEN -NumVal(v[lo]) ELSE NumVal(v[lo])
              IN [Start |-> n, End |-> n]
         [] Cardinality(pos) = 2 /\ (\A j \in DOMAIN v : v[j] # "x")
              /\ (\E j \in lo + 1 .. hi - 1 : v[j] = "-") ->
              LET a == NumVal(v[lo])
                  b == NumVal(v[hi])
              IN [Start |-> IF a <= b THEN a ELSE b, End |-> IF a <= b THEN b ELSE a]
         [] OTHER -> Zero



=============================================================================
