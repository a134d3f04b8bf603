-------------------------- MODULE MCRequestBuilders --------------------------
(***************************************************************************)
(* What the request builders promise, evaluated over every section, every  *)
(* method and short sequences of calls.                                    *)
(***************************************************************************)
EXTENDS RequestBuilders

LOCAL Calls(section) == UNION {[method : {m}, argument : Arguments(m)] : m \in DOMAIN ReadWrite[section]}
LOCAL Pairs(methods) == {p \in methods \X methods : p[1] # p[2]}

\* Two methods of one section write the same parameter only as the two positions
\* of one switch, but for withIpMode, which writes the address.
ASSUME ParametersHaveOneWriter ==
  \A section \in DOMAIN ReadWrite : \A p \in Pairs(DOMAIN ReadWrite[section]) :
    ReadWrite[section][p[1]] = ReadWrite[section][p[2]]
      <=> \/ {p[1], p[2]} = {"withIpMode", "withIpAddress"}
          \/ {p[1], p[2]} \cap On # {} /\ {p[1], p[2]} \cap Off # {}
             /\ ReadWrite[section][p[1]] = ReadWrite[section][p[2]]

\* Two methods of one section ask for the same parameter only for the maximal
\* sampling rate, which asks for the field of view.
ASSUME ParametersHaveOneReader ==
  \A section \in DOMAIN ReadOnly : \A p \in Pairs(DOMAIN ReadOnly[section]) :
    ReadOnly[section][p[1]] = ReadOnly[section][p[2]]
      <=> {p[1], p[2]} = {"requestAngularFov", "requestMaximalSamplingRate"}

\* What a section writes can be read back from the section of the same name, and
\* what it reads back by a method of the same name is what it writes, but for
\* the IP mode.
ASSUME WritesAreReadBack ==
  \A section \in DOMAIN ReadWrite \cap DOMAIN ReadOnly :
    /\ {ReadWrite[section][m] : m \in DOMAIN ReadWrite[section]}
         \subseteq {ReadOnly[section][m] : m \in DOMAIN ReadOnly[section]}
    /\ {m \in DOMAIN ReadWrite[section] \cap DOMAIN ReadOnly[section] :
          ReadWrite[section][m] # ReadOnly[section][m]}
         = IF section = "Ethernet" THEN {"withIpMode"} ELSE {}

\* The watchdog of a handle is on exactly when the last method called of the two
\* was withWatchdog, whatever else is set.
ASSUME WatchdogFollowsItsLastCall ==
  \A section \in {"HandleTcp", "HandleUdp"} : \A calls \in BoundedSeq(Calls(section), 3) :
    LET switches == SelectSeq(calls, LAMBDA call : call.method \in On \cup Off)
    IN  WatchdogEnabled(ReadWriteBuild(section, calls))
          <=> switches # <<>> /\ Last(switches).method = "withWatchdog"

\* Nothing throws in the extraction from a TCP handle's parameters that never had
\* the watchdog switched on, nor from a UDP handle's when they have an address
\* and a port as well.
ASSUME ExtractionIsSafe ==
  \A section \in {"HandleTcp", "HandleUdp"} : \A calls \in BoundedSeq(Calls(section), 3) :
    LET called(m, arguments) == \E i \in DOMAIN calls :
                                  calls[i].method = m /\ calls[i].argument \in arguments
        located == /\ called("withHostname", {"plain"}) /\ called("withPort", {"plain"})
                   /\ ~called("withHostname", {"spaced", "named"})
    IN  (~called("withWatchdog", {"plain"}) /\ (section = "HandleUdp" => located))
           => HandleExtracted(section, ReadWriteBuild(section, calls))

\* Chained builders write every parameter one of them writes, and when they
\* disagree the first one wins, unlike the calls of one builder.
ASSUME FirstBuilderWins ==
  \A before, after \in BoundedSeq(Calls("Ethernet"), 2) :
    LET first == ReadWriteBuild("Ethernet", before)
        second == ReadWriteBuild("Ethernet", after)
        chained == ChainedMap(<<first, second>>)
    IN  /\ DOMAIN chained = DOMAIN ReadWriteBuild("Ethernet", before \o after)
        /\ \A name \in DOMAIN chained :
             chained[name] = IF name \in DOMAIN first THEN first[name] ELSE second[name]

\* A blank reaches the request through the methods that write a text verbatim,
\* the user's tag and notes among them, and through no other.
ASSUME BlanksAreEncoded ==
  \A section \in DOMAIN ReadWrite : \A call \in Calls(section) :
    IsOneLine(ReadWriteBuild(section, <<call>>))
      <=> call.method \notin Verbatim \/ call.argument # "spaced"
=============================================================================
