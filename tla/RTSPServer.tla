----------------------------- MODULE RTSPServer -----------------------------
(***************************************************************************)
(* The server side of RTSP: client connections, client sessions, the       *)
(* ServerMediaSession ("media") that a stream name stands for, and the     *)
(* StreamStates ("streams") that send one track of it to clients.  Streams *)
(* and media are counted references: what is modelled is who deletes what, *)
(* and when.                                                               *)
(*                                                                         *)
(* There is one stream name.  The programs differ in how it is looked up   *)
(* and in what its clients share:                                          *)
(*   "rawFile", "timedFile": server_live555.  Media is made for a file,    *)
(*       and made again on the first look-up of each client; every client  *)
(*       has its own source, whose duration is unknown (0) or known.       *)
(*   "live": wis_live.  Media is made once, with one track, and clients    *)
(*       share the first source.                                           *)
(* A client sends no request before the last one on its connection is      *)
(* answered, but may close the connection at any time.  The description of *)
(* a raw file is read from it, in a nested event loop, which may run every *)
(* other handler; the others are made at once.                             *)
(***************************************************************************)
EXTENDS Integers, FiniteSets, SequencesExt

CONSTANTS
    Programs, Connections, Sockets, SessionIds, NULL,
    NumTracks,     \* tracks of a file with a known duration
    MaxMedia,      \* bound: media that exist at a time
    MaxStreams,    \* bound: tracks of all sessions, and so streams
    MaxNesting     \* bound: descriptions being made

UDP == 0           \* in the place of a socket number

ASSUME ServerAssumption ==
    /\ Programs \subseteq {"rawFile", "timedFile", "live"}
    /\ NULL \notin Nat \cup Sockets \cup Connections \cup SessionIds
    /\ UDP \notin Sockets
    /\ {NumTracks, MaxMedia, MaxStreams, MaxNesting} \subseteq Nat \ {0}

VARIABLES
    program,
    connections,           \* the socket of each, and whether it was closed:
                           \* while its request is being handled or, if the
                           \* socket is NULL, by another connection
    fServerMediaSessions,  \* the media of the stream name, or NULL
    media,                 \* those that exist
    fLastStreamToken,      \* of each track of each media
    streams,               \* those that exist
    destinations,          \* fDestinationsHashTable of all tracks
    sessions,              \* those that exist
    fTCPStreamingDatabase,
    describing,            \* descriptions being made, the innermost last
    callback,              \* live: the stream whose source is registered to
                           \* be given what is received
    stale                  \* history: tracks set up over TCP, then over UDP

streamVars == <<streams, fLastStreamToken, destinations>>
mediaVars == <<media, fServerMediaSessions>>
vars == <<program, connections, mediaVars, streamVars, sessions,
          fTCPStreamingDatabase, describing, callback, stale>>

Media == 1 .. MaxMedia
Streams == 1 .. MaxStreams
Tracks == IF program = "timedFile" THEN 1 .. NumTracks ELSE {1}
fReuseFirstSource == program = "live"

Fresh(ids, used) == CHOOSE id \in ids \ used :
                        \A other \in ids \ used : id <= other

\* A table with one more entry, or with another one in its place.
With(f, key, entry) ==
    [x \in DOMAIN f \cup {key} |-> IF x = key THEN entry ELSE f[x]]

NoConnection == [socket |-> NULL, closed |-> FALSE]
\* fSDPLines are made by the first description: "late" if there was a stream.
NewMedia == [referenceCount |-> 0, deleteWhenUnreferenced |-> FALSE,
             described |-> "no"]
NewSession == [media |-> NULL, tracks |-> <<>>]
NewState == [subsession |-> TRUE, token |-> NULL, tcpSocketNum |-> UDP]
NewStream(m, track) ==
    [media |-> m, track |-> track, referenceCount |-> 1,
     playing |-> FALSE,    \* fAreCurrentlyPlaying
     running |-> FALSE,    \* the sink reads from the source
     reclaimed |-> FALSE, targets |-> {}]

Init ==
    /\ program \in Programs
    /\ connections = [c \in Connections |-> NoConnection]
    /\ fServerMediaSessions = NULL
    /\ media = <<>>
    /\ fLastStreamToken = [key \in Media \X (1 .. NumTracks) |-> NULL]
    /\ streams = <<>>
    /\ destinations = {}
    /\ sessions = <<>>
    /\ fTCPStreamingDatabase = {}
    /\ describing = <<>>
    /\ callback = NULL
    /\ stale = {}

-----------------------------------------------------------------------------
(***************************************************************************)
(* Media.                                                                  *)
(***************************************************************************)

\* removeServerMediaSession(), but for the look-up table.
Removed(from, m) ==
    IF from[m].referenceCount = 0 THEN Restrict(from, DOMAIN from \ {m})
    ELSE [from EXCEPT ![m].deleteWhenUnreferenced = TRUE]

\* lookupServerMediaSession(): what is found, and the media that are left.
Found(isFirstLookup, fileExists) ==
    LET old == fServerMediaSessions
        removed == /\ old # NULL /\ program # "live"
                   /\ ~fileExists \/ isFirstLookup
        left == IF removed THEN Removed(media, old) ELSE media
        new == Fresh(Media, DOMAIN left)
    IN  IF old # NULL /\ ~removed THEN [sms |-> old, media |-> media]
        ELSE IF fileExists THEN [sms |-> new, media |-> With(left, new, NewMedia)]
        ELSE [sms |-> NULL, media |-> left]

\* There is room for the media that a look-up may make.
MayLookUp(isFirstLookup) ==
    \/ DOMAIN media # Media
    \/ fServerMediaSessions # NULL /\ (program = "live" \/ ~isFirstLookup)

\* The file of a live stream always "exists".
FileMayExist == IF program = "live" THEN {TRUE} ELSE BOOLEAN

\* Mutant: a session does not count its reference.
ReferenceForgotten(from, m) == from

Referenced(from, m) == [from EXCEPT ![m].referenceCount = @ + 1]

\* References are given up: "released" says how many of each media.  Media that
\* were to be deleted when unreferenced are, and the name is then removed from
\* the table, whatever media it stands for by now.
GiveUpMedia(released) ==
    LET left == [m \in DOMAIN media |->
                    [media[m] EXCEPT !.referenceCount = @ - released[m]]]
        unused == {m \in DOMAIN media :
                      /\ left[m] # media[m] /\ left[m].referenceCount = 0
                      /\ left[m].deleteWhenUnreferenced}
    IN  /\ media' = Restrict(left, DOMAIN media \ unused)
        /\ fServerMediaSessions' = IF unused = {} THEN fServerMediaSessions
                                   ELSE NULL

-----------------------------------------------------------------------------
(***************************************************************************)
(* Streams.  A pair is a track of a session.                               *)
(***************************************************************************)
State(pair) == sessions[pair[1]].tracks[pair[2]]
Token(pair) == State(pair).token

References(pairs, x) == Cardinality({pair \in pairs : Token(pair) = x})

\* Mutant: a stream goes with the first of its tracks.
ReferencedByOne(pairs) == {x \in DOMAIN streams : References(pairs, x) > 0}

\* The streams that are no longer referenced without these tracks.
ReferencedByThese(pairs) ==
    {x \in DOMAIN streams : /\ References(pairs, x) > 0
                            /\ streams[x].referenceCount <= References(pairs, x)}

\* Mutant: any client that goes takes the callback along.
CallbackDropped(pairs) ==
    IF program = "live" /\ pairs # {} THEN NULL ELSE callback

\* A source that is closed gives up the callback, whoever registered it.
CallbackLeft(pairs) ==
    IF program = "live" /\ ReferencedByThese(pairs) # {} THEN NULL ELSE callback

\* deleteStream() of some tracks.  A stream that is no longer referenced is
\* deleted, and its source with it.
Deleted(pairs) ==
    LET gone == ReferencedByThese(pairs)
        of(d) == <<d.session, d.track>> \in pairs
        ended(x) == {[session |-> d.session, socket |-> d.socket] :
                        d \in {d \in destinations :
                                  of(d) /\ Token(<<d.session, d.track>>) = x}}
    IN  [streams |->
            [x \in DOMAIN streams \ gone |->
                [streams[x] EXCEPT !.referenceCount = @ - References(pairs, x),
                                   !.targets = @ \ ended(x)]],
         last |-> [key \in DOMAIN fLastStreamToken |->
                      IF fLastStreamToken[key] \in gone THEN NULL
                      ELSE fLastStreamToken[key]],
         destinations |-> {d \in destinations : ~of(d)},
         callback |-> CallbackLeft(pairs)]

\* The tracks of these pairs are no longer part of their sessions.  A session
\* that has no track left is deleted, and so are those of "ended".  Descriptions
\* of the media in "described" are finished.
DeleteTracks(pairs, ended, described) ==
    LET deleted == Deleted(pairs)
        left(s) == {t \in DOMAIN sessions[s].tracks :
                       State(<<s, t>>).subsession /\ <<s, t>> \notin pairs}
        touched == {pair[1] : pair \in pairs}
        gone == ended \cup {s \in touched : left(s) = {}}
    IN  /\ streams' = deleted.streams
        /\ fLastStreamToken' = deleted.last
        /\ destinations' = deleted.destinations
        /\ callback' = deleted.callback
        /\ sessions' =
               [s \in DOMAIN sessions \ gone |->
                   [sessions[s] EXCEPT !.tracks =
                       [t \in DOMAIN @ |->
                           IF <<s, t>> \in pairs
                           THEN [@[t] EXCEPT !.subsession = FALSE] ELSE @[t]]]]
        /\ GiveUpMedia([m \in DOMAIN media |->
                        Cardinality({s \in gone : sessions[s].media = m})
                        + (IF m \in described THEN 1 ELSE 0)])
        /\ stale' = {pair \in stale \ pairs : pair[1] \notin gone}

TracksLeft(s) == {<<s, t>> : t \in {t \in DOMAIN sessions[s].tracks :
                                       State(<<s, t>>).subsession}}

\* unnoteTCPStreamingOnSocket() of these tracks.
Unnoted(pairs) ==
    {record \in fTCPStreamingDatabase :
        LET pair == <<record.session, record.track>>
        IN  ~(pair \in pairs /\ record.socket = State(pair).tcpSocketNum)}

-----------------------------------------------------------------------------
(***************************************************************************)
(* Requests.                                                               *)
(***************************************************************************)
OpenSockets == {connections[c].socket :
                   c \in {c \in Connections : ~connections[c].closed}} \ {NULL}

Describing(c) == \E i \in DOMAIN describing : describing[i].connection = c

MayRequest(c) == /\ connections[c].socket # NULL /\ ~connections[c].closed
                 /\ ~Describing(c)

\* The session exists, or there is room for it.
MayHave(s) == LET ids == {s} \cup DOMAIN sessions
              IN  Cardinality(ids) * Cardinality(Tracks) <= MaxStreams

Connect(c, socket) ==
    /\ connections[c] = NoConnection /\ socket \notin OpenSockets
    /\ connections' = [connections EXCEPT ![c] = [@ EXCEPT !.socket = socket]]
    /\ UNCHANGED <<program, mediaVars, streamVars, sessions,
                   fTCPStreamingDatabase, describing, callback, stale>>

\* handleCmd_DESCRIBE(), as far as the making of the description.
Describe(c) ==
    /\ MayRequest(c) /\ MayLookUp(TRUE)
    /\ program = "rawFile" /\ Len(describing) < MaxNesting
    /\ \E fileExists \in BOOLEAN :
          LET found == Found(TRUE, fileExists)
          IN  /\ fServerMediaSessions' = found.sms
              /\ media' = IF found.sms = NULL THEN found.media
                          ELSE Referenced(found.media, found.sms)
              /\ describing' = IF found.sms = NULL THEN describing
                               ELSE Append(describing, [connection |-> c,
                                                        media |-> found.sms])
    /\ UNCHANGED <<program, connections, streamVars, sessions,
                   fTCPStreamingDatabase, callback, stale>>

\* The same, of a description that is made at once.  The first one of a live
\* stream makes a dummy source, which registers itself, and closes it.
DescribeAtOnce(c) ==
    /\ MayRequest(c) /\ MayLookUp(TRUE) /\ program # "rawFile"
    /\ \E fileExists \in FileMayExist :
          LET found == Found(TRUE, fileExists)
              isFirst == /\ program = "live"
                         /\ found.media[found.sms].described = "no"
          IN  /\ fServerMediaSessions' = found.sms
              /\ media' = IF isFirst
                          THEN [found.media EXCEPT ![found.sms].described =
                                   IF streams = <<>> THEN "early" ELSE "late"]
                          ELSE found.media
              /\ callback' = IF isFirst THEN NULL ELSE callback
    /\ UNCHANGED <<program, connections, streamVars, sessions,
                   fTCPStreamingDatabase, describing, stale>>

\* handleCmd_SETUP() finds no such stream, or other media than the session's,
\* or a track that was torn down.
SetupRefused(c, s, track) ==
    /\ MayRequest(c) /\ track \in Tracks
    /\ LET session == IF s \in DOMAIN sessions THEN sessions[s] ELSE NewSession
       IN  /\ MayLookUp(session.media = NULL)
           /\ \E fileExists \in FileMayExist :
             LET found == Found(session.media = NULL, fileExists)
             IN  /\ \/ found.sms = NULL
                    \/ session.media \notin {NULL, found.sms}
                    \/ /\ session.tracks # <<>>
                       /\ ~session.tracks[track].subsession
                 /\ MayHave(s)
                 /\ fServerMediaSessions' = found.sms
                 /\ media' = found.media
                 /\ sessions' = With(sessions, s, session)
    /\ UNCHANGED <<program, connections, streamVars, fTCPStreamingDatabase,
                   describing, callback, stale>>

\* Mutant: a shared stream does not count the new reference.
StreamUncounted(left, m, track) ==
    LET last == left.last[<<m, track>>]
        new == Fresh(Streams, DOMAIN left.streams)
    IN  IF last # NULL /\ fReuseFirstSource
        THEN [token |-> last, all |-> left.streams]
        ELSE [token |-> new,
              all |-> With(left.streams, new, NewStream(m, track))]

\* getStreamParameters(), given what is left after an earlier set-up of this
\* track was undone: the stream, and all streams.
Stream(left, m, track) ==
    LET last == left.last[<<m, track>>]
        new == Fresh(Streams, DOMAIN left.streams)
    IN  IF last # NULL /\ fReuseFirstSource
        THEN [token |-> last,
              all |-> [left.streams EXCEPT ![last].referenceCount = @ + 1]]
        ELSE [token |-> new,
              all |-> With(left.streams, new, NewStream(m, track))]

\* handleCmd_SETUP().  A socket number of an earlier set-up over TCP stays if
\* this one is over UDP.
Setup(c, s, track, overTCP) ==
    /\ MayRequest(c) /\ track \in Tracks
    /\ MayHave(s)
    /\ LET isNew == s \notin DOMAIN sessions \/ sessions[s].media = NULL
           pair == <<s, track>>
           again == ~isNew /\ Token(pair) # NULL
           left == Deleted(IF again THEN {pair} ELSE {})
           socket == IF overTCP THEN connections[c].socket
                     ELSE IF isNew THEN UDP ELSE State(pair).tcpSocketNum
       IN  /\ MayLookUp(isNew)
           /\ \E fileExists \in FileMayExist :
             LET found == Found(isNew, fileExists)
                 stream == Stream(left, found.sms, track)
                 tracks == IF isNew THEN [t \in Tracks |-> NewState]
                           ELSE sessions[s].tracks
             IN  /\ found.sms # NULL
                 /\ ~isNew => sessions[s].media = found.sms
                 /\ tracks[track].subsession
                 /\ fServerMediaSessions' = found.sms
                 /\ media' = IF isNew THEN Referenced(found.media, found.sms)
                             ELSE found.media
                 /\ sessions' = With(sessions, s,
                        [media |-> found.sms,
                         tracks |-> [tracks EXCEPT ![track] =
                                        [@ EXCEPT !.token = stream.token,
                                                  !.tcpSocketNum = socket]]])
                 /\ streams' = stream.all
                 /\ fLastStreamToken' = [left.last EXCEPT
                        ![<<found.sms, track>>] = stream.token]
                 /\ destinations' = left.destinations \cup
                        {[session |-> s, track |-> track, socket |-> socket]}
                 /\ callback' = IF program = "live"
                                   /\ stream.token \notin DOMAIN left.streams
                                THEN stream.token ELSE left.callback
    /\ fTCPStreamingDatabase' =
           (IF s \in DOMAIN sessions /\ sessions[s].media # NULL
               /\ Token(<<s, track>>) # NULL
            THEN Unnoted({<<s, track>>}) ELSE fTCPStreamingDatabase)
           \cup (IF overTCP THEN {[socket |-> connections[c].socket,
                                   session |-> s, track |-> track]}
                 ELSE {})
    /\ stale' = IF overTCP \/ s \notin DOMAIN sessions
                   \/ sessions[s].media = NULL \/ State(<<s, track>>).tcpSocketNum = UDP
                THEN stale \ {<<s, track>>} ELSE stale \cup {<<s, track>>}
    /\ UNCHANGED <<program, connections, describing>>

\* A request is for one track, or for all.
Chosen(s) == {DOMAIN sessions[s].tracks} \cup {{t} : t \in DOMAIN sessions[s].tracks}

\* The pairs that a request for these tracks is about.
Pairs(s, tracks) == {pair \in TracksLeft(s) : pair[2] \in tracks}

InSession(c, s) == /\ MayRequest(c) /\ s \in DOMAIN sessions
                   /\ sessions[s].media # NULL

\* startPlaying() for one client.
Started(x, clients) ==
    IF streams[x].reclaimed THEN streams[x]
    ELSE [streams[x] EXCEPT
             !.targets = @ \cup clients,
             !.playing = TRUE,
             !.running = @ \/ ~streams[x].playing]

Play(c, s) ==
    /\ InSession(c, s)
    /\ \E tracks \in Chosen(s) :
          streams' = [x \in DOMAIN streams |->
              LET pairs == {pair \in Pairs(s, tracks) : Token(pair) = x}
                  clients == {[session |-> s, socket |-> d.socket] :
                                 d \in {d \in destinations :
                                           <<d.session, d.track>> \in pairs}}
              IN  IF pairs = {} THEN streams[x] ELSE Started(x, clients)]
    /\ UNCHANGED <<program, connections, mediaVars, fLastStreamToken,
                   destinations, sessions, fTCPStreamingDatabase, describing,
                   callback, stale>>

Paused(stream) == [stream EXCEPT !.playing = FALSE, !.running = FALSE]

Pause(c, s) ==
    /\ InSession(c, s) /\ ~fReuseFirstSource
    /\ \E tracks \in Chosen(s) :
          streams' = [x \in DOMAIN streams |->
              IF \E pair \in Pairs(s, tracks) : Token(pair) = x
              THEN Paused(streams[x]) ELSE streams[x]]
    /\ UNCHANGED <<program, connections, mediaVars, fLastStreamToken,
                   destinations, sessions, fTCPStreamingDatabase, describing,
                   callback, stale>>

Teardown(c, s) ==
    /\ InSession(c, s)
    /\ \E tracks \in Chosen(s) :
          /\ fTCPStreamingDatabase' = Unnoted(Pairs(s, tracks))
          /\ DeleteTracks(Pairs(s, tracks), {}, {})
    /\ UNCHANGED <<program, connections, describing>>

-----------------------------------------------------------------------------
(***************************************************************************)
(* What happens without a request.                                         *)
(***************************************************************************)

\* livenessTimeoutTask(): the session is deleted.
LivenessTimeout(s) ==
    /\ s \in DOMAIN sessions
    /\ fTCPStreamingDatabase' = Unnoted(TracksLeft(s))
    /\ DeleteTracks(TracksLeft(s), {s}, {})
    /\ UNCHANGED <<program, connections, describing>>

\* stopTCPStreamingOnSocket(), of a connection that is deleted.
StopTCPStreaming(socket, described) ==
    LET records == {record \in fTCPStreamingDatabase : record.socket = socket}
    IN  /\ fTCPStreamingDatabase' = fTCPStreamingDatabase \ records
        /\ DeleteTracks({<<record.session, record.track>> :
                            record \in {record \in records :
                                record.session \in DOMAIN sessions
                                /\ State(<<record.session,
                                           record.track>>).subsession}},
                        {}, described)

\* The client closes the connection.  If a description is being made for it
\* only the socket is closed.
ConnectionCloses(c) ==
    /\ connections[c].socket # NULL /\ ~connections[c].closed
    /\ \/ /\ ~Describing(c)
          /\ StopTCPStreaming(connections[c].socket, {})
          /\ connections' = [connections EXCEPT ![c] = NoConnection]
       \/ /\ Describing(c)
          /\ connections' = [connections EXCEPT ![c].closed = TRUE]
          /\ UNCHANGED <<mediaVars, streamVars, sessions,
                         fTCPStreamingDatabase, callback, stale>>
    /\ UNCHANGED <<program, describing>>

\* The connection was closed while its request was being handled.
IsClosing(c) == connections[c].closed /\ connections[c].socket # NULL

\* The rest of handleCmd_DESCRIBE().
Described ==
    /\ describing # <<>> /\ ~IsClosing(Last(describing).connection)
    /\ GiveUpMedia([m \in DOMAIN media |->
                       IF m = Last(describing).media THEN 1 ELSE 0])
    /\ describing' = Front(describing)
    /\ UNCHANGED <<program, connections, streamVars, sessions,
                   fTCPStreamingDatabase, callback, stale>>

\* The same, for a connection that was closed and is now deleted.  The number of
\* its socket is closed once more, whatever connection has it by now.
DescribedForNobody ==
    /\ describing # <<>> /\ IsClosing(Last(describing).connection)
    /\ LET c == Last(describing).connection
           socket == connections[c].socket
       IN  /\ StopTCPStreaming(socket, {Last(describing).media})
           /\ connections' = [other \in Connections |->
                  IF other = c THEN NoConnection
                  ELSE IF connections[other].socket = socket
                  THEN [socket |-> NULL, closed |-> TRUE]
                  ELSE connections[other]]
    /\ describing' = Front(describing)
    /\ UNCHANGED program

\* A reclaimed stream is not the last one any more.
WithoutLast(x) == [key \in DOMAIN fLastStreamToken |->
                      IF fLastStreamToken[key] = x THEN NULL
                      ELSE fLastStreamToken[key]]

\* afterPlayingStreamState(): a stream whose duration is unknown is reclaimed.
SourceEnds(x) ==
    /\ x \in DOMAIN streams /\ streams[x].running /\ program # "live"
    /\ \/ /\ program = "rawFile"
          /\ streams' = [streams EXCEPT ![x].running = FALSE,
                                        ![x].reclaimed = TRUE,
                                        ![x].targets = {}]
          /\ fLastStreamToken' = WithoutLast(x)
       \/ /\ program = "timedFile"
          /\ streams' = [streams EXCEPT ![x].running = FALSE]
          /\ UNCHANGED fLastStreamToken
    /\ UNCHANGED <<program, connections, mediaVars, destinations, sessions,
                   fTCPStreamingDatabase, describing, callback, stale>>

\* sendDataOverTCP() fails: the stream is no longer sent over this socket.
SendFails(x, socket) ==
    /\ x \in DOMAIN streams /\ streams[x].running
    /\ \E target \in streams[x].targets : target.socket = socket
    /\ streams' = [streams EXCEPT ![x].targets =
                      {target \in @ : target.socket # socket}]
    /\ UNCHANGED <<program, connections, mediaVars, fLastStreamToken,
                   destinations, sessions, fTCPStreamingDatabase, describing,
                   callback, stale>>

Next ==
    \/ \E c \in Connections :
          \/ \E socket \in Sockets : Connect(c, socket)
          \/ Describe(c)
          \/ DescribeAtOnce(c)
          \/ ConnectionCloses(c)
          \/ \E s \in SessionIds :
                \/ \E track \in 1 .. NumTracks :
                      \/ SetupRefused(c, s, track)
                      \/ \E overTCP \in BOOLEAN : Setup(c, s, track, overTCP)
                \/ Play(c, s)
                \/ Pause(c, s)
                \/ Teardown(c, s)
    \/ Described
    \/ DescribedForNobody
    \/ \E s \in SessionIds : LivenessTimeout(s)
    \/ \E x \in Streams : SourceEnds(x)
    \/ \E x \in Streams, socket \in Sockets : SendFails(x, socket)

Spec == Init /\ [][Next]_vars

-----------------------------------------------------------------------------
AllPairs == UNION {TracksLeft(s) : s \in DOMAIN sessions}

\* The objects have their types.
TypeOK ==
    /\ program \in Programs
    /\ connections \in [Connections -> [socket : Sockets \cup {NULL}, closed : BOOLEAN]]
    /\ fServerMediaSessions \in Media \cup {NULL}
    /\ DOMAIN media \subseteq Media /\ DOMAIN streams \subseteq Streams
    /\ \A m \in DOMAIN media :
          media[m] \in [referenceCount : Nat, deleteWhenUnreferenced : BOOLEAN,
                       described : {"no", "early", "late"}]
    /\ fLastStreamToken \in [Media \X (1 .. NumTracks) -> Streams \cup {NULL}]
    /\ \A x \in DOMAIN streams :
          streams[x] \in [media : Media, track : Tracks, referenceCount : Nat,
                         playing : BOOLEAN, running : BOOLEAN,
                         reclaimed : BOOLEAN,
                         targets : SUBSET [session : SessionIds,
                                           socket : Sockets \cup {UDP}]]
    /\ destinations \subseteq [session : SessionIds, track : Tracks,
                               socket : Sockets \cup {UDP}]
    /\ DOMAIN sessions \subseteq SessionIds
    /\ \A s \in DOMAIN sessions :
          /\ sessions[s].media \in Media \cup {NULL}
          /\ sessions[s].tracks \in
                {<<>>} \cup [Tracks -> [subsession : BOOLEAN,
                                      token : Streams \cup {NULL},
                                      tcpSocketNum : Sockets \cup {UDP}]]
    /\ fTCPStreamingDatabase \subseteq [socket : Sockets, session : SessionIds,
                                        track : Tracks]
    /\ describing \in Seq([connection : Connections, media : Media])
    /\ callback \in Streams \cup {NULL}
    /\ stale \subseteq SessionIds \X Tracks

\* The counted references are those that there are.
CountsAgree ==
    /\ \A m \in DOMAIN media :
          media[m].referenceCount =
              Cardinality({s \in DOMAIN sessions : sessions[s].media = m})
              + Cardinality({i \in DOMAIN describing : describing[i].media = m})
    /\ \A m \in DOMAIN media : media[m].deleteWhenUnreferenced =>
                               media[m].referenceCount > 0
    /\ {sessions[s].media : s \in DOMAIN sessions}
           \cup {describing[i].media : i \in DOMAIN describing}
           \cup {fServerMediaSessions} \subseteq DOMAIN media \cup {NULL}
    /\ \A x \in DOMAIN streams :
          /\ streams[x].referenceCount > 0
          /\ streams[x].referenceCount =
                 Cardinality({pair \in AllPairs : Token(pair) = x})
    /\ \A pair \in AllPairs : Token(pair) # NULL =>
          /\ Token(pair) \in DOMAIN streams
          /\ streams[Token(pair)].media = sessions[pair[1]].media
          /\ streams[Token(pair)].track = pair[2]

\* What getStreamParameters() may reuse is a stream of this track that was not
\* reclaimed, and where the source is to be reused there is no other stream.
LastStreamIsShared ==
    /\ \A key \in DOMAIN fLastStreamToken :
          LET x == fLastStreamToken[key]
          IN  x # NULL => /\ x \in DOMAIN streams /\ ~streams[x].reclaimed
                          /\ key = <<streams[x].media, streams[x].track>>
    /\ fReuseFirstSource =>
          \A x \in DOMAIN streams :
             fLastStreamToken[<<streams[x].media, streams[x].track>>] = x

\* What is sent over TCP goes to the socket of a connection that exists, and is
\* noted, so that it stops when the connection goes, even if other requests of
\* the session came through other connections.  Not so of a track that was then
\* set up again over UDP: it stays with the old socket, unnoted.
TCPStreamsAreNoted ==
    /\ \A d \in destinations :
          \/ d.socket = UDP \/ <<d.session, d.track>> \in stale
          \/ [socket |-> d.socket, session |-> d.session,
              track |-> d.track] \in fTCPStreamingDatabase
    /\ \A record \in fTCPStreamingDatabase :
          /\ \E c \in Connections : connections[c].socket = record.socket
          /\ <<record.session, record.track>> \in AllPairs
          /\ State(<<record.session, record.track>>).tcpSocketNum = record.socket

\* What refers to what is true: no media, stream or connection is used after it
\* went, and no stream or flagged media is left behind, however set-up, play,
\* teardown, timeouts, descriptions and closed connections meet.
ReferencesAgree == CountsAgree /\ LastStreamIsShared /\ TCPStreamsAreNoted

\* A live stream that is set up is the one that is given what is received,
\* whichever of its clients go, unless its first description came later.
LiveStreamIsFed ==
    program = "live" =>
        \A x \in DOMAIN streams :
            callback = x \/ media[streams[x].media].described = "late"

\* The request, or the end, of a session, or of the connection it is sent over.
IsAbout(s, socket) ==
    \/ \E c \in Connections :
          \/ \E track \in Tracks : Setup(c, s, track, TRUE) \/ Setup(c, s, track, FALSE)
          \/ Teardown(c, s)
          \/ ConnectionCloses(c) /\ connections[c].socket = socket
    \/ LivenessTimeout(s)
    \/ DescribedForNobody /\ connections[Last(describing).connection].socket = socket

\* A client that is being sent a stream goes on being sent it, whatever other
\* clients of the stream, or of the server, do.
OthersUndisturbed ==
    [][\A x \in DOMAIN streams : \A target \in streams[x].targets :
          \/ x \in DOMAIN streams' /\ target \in streams'[x].targets
          \/ SourceEnds(x) \/ SendFails(x, target.socket)
          \/ IsAbout(target.session, target.socket)]_vars

\* RTSPServer.cpp:1475 says of the SETUP it refuses that the client asked for
\* another stream than at first.  There is only one name here: while there are
\* media of that name, a look-up should find those that the session began with.
SameStreamIsFound ==
    \A s \in DOMAIN sessions :
        sessions[s].media # NULL /\ fServerMediaSessions # NULL
            => Found(FALSE, TRUE).sms = sessions[s].media

-----------------------------------------------------------------------------
Symmetry == Permutations(Connections) \cup Permutations(Sockets)
            \cup Permutations(SessionIds)

=============================================================================
