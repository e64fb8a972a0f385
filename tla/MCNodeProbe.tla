---------------------------- MODULE MCNodeProbe ----------------------------
EXTENDS NodeProbe

CONSTANTS a1, a2

\* A warning with exit status 0 that a locale-less remote shell prints.
MCLocale == "bash: warning: setlocale: LC_ALL: cannot change locale (en_US.UTF-8)"

\* The interface command prints nothing on stderr, or the locale warning.
MCStderrOutputs == {"", MCLocale \o "\n"}

=============================================================================
