---------------------------- MODULE MCPortUsage -----------------------------
EXTENDS PortUsage

\* Three ports, and annotation values in the forms parseRange meets: a
\* descending range with a blank (" 3-1"), a single port ("2"), and a range
\* starting at port 0 ("0-2"), as parseRange's invalid result does, and a
\* range reaching past the host's ports ("2-5").
MCPorts == 1..3
MCValues == {<<" ", "3", "-", "1">>, <<"2">>, <<"0", "-", "2">>, <<"2", "-", "5">>}

\* Every string of at most four tokens over two numerals, the dash, the
\* blank and another character.
MCParseInputs == UNION {[1..n -> {"1", "2", "-", " ", "x"}] : n \in 0..4}

\* enablePrintPort absent, set to an unrecognized word, and set to "No".
MCSwitchValues == {<<>>, <<"o", "n">>, <<" ", "N", "o">>}

\* Every upper and lower case spelling of the recognized words, bare and
\* with a blank either side, with the blank string and near misses.
MCSwitchInputs ==
    LET spellings(w) == {s \in [DOMAIN w -> Range(Lower \o Upper \o <<"0", "1">>)] :
                           \A i \in DOMAIN w : ToUpper(<<s[i]>>) = <<w[i]>>}
        words == UNION {spellings(w) : w \in TrueWords \cup FalseWords}
    IN words \cup {<<" ">> \o w \o <<" ">> : w \in words}
       \cup {<<>>, <<" ">>, <<"t", "r", "u">>, <<"o", "n">>, <<"2">>}

\* parseMapItemToBoolWithDefault and its reference agree on every checked
\* string, with either default.
MCSwitchAgrees ==
    \A v \in MCSwitchInputs, d \in BOOLEAN :
        ParseMapItemToBoolWithDefault(v, d) = RefBool(v, d)

\* The enablePrintPort switch is read as spec section 4.4 says, for every
\* checked spelling and for the value controller-config holds.
SwitchParseMatchesReference ==
    MCSwitchAgrees /\ EnablePrintPort = RefBool(switch, TRUE)

\* parseRange and its reference agree on every checked string.
MCParseAgrees == \A v \in MCParseInputs : ParseRange(v) = RefRange(v)

\* parseRange agrees with the reference of spec section 7 on every checked
\* string and on every value the MPD ConfigMap holds.
ParseRangeMatchesReference ==
    MCParseAgrees /\ \A v \in annotations : Parsed[v] = RefRange(v)

=============================================================================
