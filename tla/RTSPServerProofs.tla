-------------------------- MODULE RTSPServerProofs --------------------------
(***************************************************************************)
(* For any number of connections, sockets, sessions, media and streams:    *)
(* the counted references are those that there are, nothing is used after  *)
(* it went, what is sent over TCP stops with its connection, the live      *)
(* stream is fed, and no client is disturbed by another.                   *)
(*                                                                         *)
(* The invariant is said of functions that stand for what the sessions     *)
(* refer to ("TokenMap", "MediaMap", "SocketMap", "UsesMap"), so that what *)
(* deleteStream() and getStreamParameters() make of the tables can be      *)
(* followed through the middle of a SETUP, which does both.                *)
(***************************************************************************)
EXTENDS RTSPServer, FiniteSetTheorems, SequenceTheorems, TLAPS

(***************************************************************************)
(* The inductive invariant.                                                *)
(***************************************************************************)
TrackState == [subsession : BOOLEAN, token : Streams \cup {NULL},
               tcpSocketNum : Sockets \cup {UDP}]
Target == [session : SessionIds, socket : Sockets \cup {UDP}]
StreamRecord == [media : Media, track : Tracks, referenceCount : Nat,
                 playing : BOOLEAN, running : BOOLEAN, reclaimed : BOOLEAN,
                 targets : SUBSET Target]
MediaRecord == [referenceCount : Nat, deleteWhenUnreferenced : BOOLEAN,
                described : {"no", "early", "late"}]
Keys == Media \X (1 .. NumTracks)

\* What the tracks of all sessions refer to.
TokenMap == [pair \in AllPairs |-> Token(pair)]
MediaMap == [pair \in AllPairs |-> sessions[pair[1]].media]
SocketMap == [pair \in AllPairs |-> State(pair).tcpSocketNum]

\* How often the media are referred to, by sessions and by descriptions.
Descriptions == [connection : Connections, media : Media]
SessionsOf(all, m) == {s \in DOMAIN all : all[s].media = m}
DescriptionsOf(all, m) == {i \in DOMAIN all : all[i].media = m}
Uses(all, descriptions) ==
    [m \in Media |-> Cardinality(SessionsOf(all, m))
                     + Cardinality(DescriptionsOf(descriptions, m))]
UsesMap == Uses(sessions, describing)

\* A session has tracks from its first set-up on.
SessionsSound ==
    /\ DOMAIN sessions \subseteq SessionIds /\ IsFiniteSet(DOMAIN sessions)
    /\ \A s \in DOMAIN sessions :
          /\ sessions[s] \in [media : Media \cup {NULL},
                              tracks : {<<>>} \cup [Tracks -> TrackState]]
          /\ sessions[s].media = NULL => sessions[s].tracks = <<>>
          /\ sessions[s].media # NULL => sessions[s].tracks \in [Tracks -> TrackState]

\* These media exist, and are referred to so often.  The media of a live
\* stream are made once and stay.
MediaSound(all, sms, uses) ==
    /\ DOMAIN all \subseteq Media
    /\ \A m \in DOMAIN all :
          /\ all[m] \in MediaRecord
          /\ all[m].referenceCount = uses[m]
          /\ all[m].deleteWhenUnreferenced => uses[m] # 0
    /\ uses \in [Media -> Nat]
    /\ \A m \in Media : uses[m] # 0 => m \in DOMAIN all
    /\ sms \in DOMAIN all \cup {NULL}
    /\ program = "live" =>
          /\ DOMAIN all \subseteq {sms}
          /\ \A m \in DOMAIN all : ~all[m].deleteWhenUnreferenced

\* These streams exist, and the tracks in the domain of "tokens" refer to them.
StreamsSound(all, last, tokens, of) ==
    /\ DOMAIN all \subseteq Streams /\ IsFiniteSet(DOMAIN tokens)
    /\ \A x \in DOMAIN all :
          /\ all[x] \in StreamRecord
          /\ all[x].referenceCount
                 = Cardinality({pair \in DOMAIN tokens : tokens[pair] = x})
          /\ \E pair \in DOMAIN tokens : tokens[pair] = x
    /\ \A pair \in DOMAIN tokens : tokens[pair] # NULL =>
          /\ tokens[pair] \in DOMAIN all
          /\ all[tokens[pair]].media = of[pair]
          /\ all[tokens[pair]].track = pair[2]
    /\ last \in [Keys -> Streams \cup {NULL}]
    /\ \A key \in Keys : last[key] # NULL =>
          /\ last[key] \in DOMAIN all /\ ~all[last[key]].reclaimed
          /\ key = <<all[last[key]].media, all[last[key]].track>>
    /\ program = "live" =>
          \A x \in DOMAIN all : last[<<all[x].media, all[x].track>>] = x

\* A destination is that of a track that was set up, and a stream is sent to
\* destinations of its tracks only.
DestinationsSound(all, dests, tokens, socketOf) ==
    /\ dests \subseteq [session : SessionIds, track : Tracks,
                        socket : Sockets \cup {UDP}]
    /\ \A d \in dests :
          /\ <<d.session, d.track>> \in DOMAIN tokens
          /\ tokens[<<d.session, d.track>>] # NULL
          /\ d.socket = socketOf[<<d.session, d.track>>]
    /\ \A x \in DOMAIN all : \A target \in all[x].targets :
          \E d \in dests :
             /\ d.session = target.session /\ d.socket = target.socket
             /\ tokens[<<d.session, d.track>>] = x

\* What is sent over TCP is noted, unless it is stale, and what is noted is of
\* a track that was set up over TCP.
NotesSound(dests, notes, tokens, socketOf, old) ==
    /\ notes \subseteq [socket : Sockets, session : SessionIds, track : Tracks]
    /\ \A d \in dests :
          \/ d.socket = UDP \/ <<d.session, d.track>> \in old
          \/ [socket |-> d.socket, session |-> d.session,
              track |-> d.track] \in notes
    /\ \A record \in notes :
          /\ <<record.session, record.track>> \in DOMAIN tokens
          /\ socketOf[<<record.session, record.track>>] = record.socket
    /\ \A pair \in DOMAIN tokens : tokens[pair] = NULL => socketOf[pair] = UDP

\* What is noted goes over the socket of a connection.
NotedAreConnected ==
    \A record \in fTCPStreamingDatabase :
        \E c \in Connections : connections[c].socket = record.socket

Others ==
    /\ program \in Programs
    /\ connections \in [Connections -> [socket : Sockets \cup {NULL}, closed : BOOLEAN]]
    /\ describing \in Seq(Descriptions)
    /\ callback \in Streams \cup {NULL}
    /\ stale \subseteq SessionIds \X Tracks

IInv ==
    /\ Others /\ SessionsSound
    /\ MediaSound(media, fServerMediaSessions, UsesMap)
    /\ StreamsSound(streams, fLastStreamToken, TokenMap, MediaMap)
    /\ DestinationsSound(streams, destinations, TokenMap, SocketMap)
    /\ NotesSound(destinations, fTCPStreamingDatabase, TokenMap, SocketMap, stale)
    /\ NotedAreConnected /\ LiveStreamIsFed

-----------------------------------------------------------------------------
(***************************************************************************)
(* Functions, numbers and counting.                                        *)
(***************************************************************************)

\* A function is given a value, whether it had one there or not.
LEMMA Added ==
  ASSUME NEW f, NEW x, NEW v
  PROVE  /\ DOMAIN With(f, x, v) = DOMAIN f \cup {x}
         /\ With(f, x, v)[x] = v
         /\ \A y \in DOMAIN f : y # x => With(f, x, v)[y] = f[y]
BY DEF With

\* A function is restricted to some of its values.
LEMMA Restricted ==
  ASSUME NEW f, NEW S
  PROVE  DOMAIN Restrict(f, S) = S /\ \A y \in S : Restrict(f, S)[y] = f[y]
BY DEF Restrict

\* The number that Fresh chooses is free.
LEMMA FreshIsFree ==
  ASSUME NEW n \in Nat, NEW used, ~ (1 .. n \subseteq used)
  PROVE  Fresh(1 .. n, used) \in 1 .. n /\ Fresh(1 .. n, used) \notin used
<1> DEFINE T == 1 .. n \ used
           B == {0 .. i : i \in T}
<1>0. T \subseteq Nat /\ T # {}
  OBVIOUS
<1>1. IsWellFoundedOn(StrictSubsetOrdering(Nat), FiniteSubsetsOf(Nat))
  BY FS_StrictSubsetOrderingWellFounded
<1> HIDE DEF T
<1>2. B \subseteq FiniteSubsetsOf(Nat)
  <2>1. ASSUME NEW i \in T PROVE 0 .. i \in FiniteSubsetsOf(Nat)
    <3>1. i \in Nat
      BY <1>0
    <3>2. IsFiniteSet(0 .. i)
      BY <3>1, FS_Interval
    <3> QED
      BY <3>1, <3>2 DEF FiniteSubsetsOf
  <2> QED
    BY <2>1
<1>3. B # {}
  BY <1>0
<1>4. PICK b \in B : \A c \in B : ~ (<<c, b>> \in StrictSubsetOrdering(Nat))
  BY <1>1, <1>2, <1>3, WFMin
<1>5. PICK m \in T : b = 0 .. m
  OBVIOUS
<1>6. ASSUME NEW k \in T
      PROVE  m <= k
  <2>1. k \in Nat /\ m \in Nat
    BY <1>0
  <2>2. 0 .. k \in B
    OBVIOUS
  <2>3. ~ (<<0 .. k, 0 .. m>> \in StrictSubsetOrdering(Nat))
    BY <1>4, <1>5, <2>2
  <2>4. CASE k < m
    <3>1. 0 .. k \subseteq 0 .. m /\ 0 .. k # 0 .. m
      BY <2>1, <2>4
    <3>2. 0 .. k \subseteq Nat /\ 0 .. m \subseteq Nat
      BY <2>1
    <3> QED
      BY <2>3, <3>1, <3>2 DEF StrictSubsetOrdering
  <2> QED
    BY <2>1, <2>4
<1>7. \E id \in T : \A other \in T : id <= other
  BY <1>6
<1>8. Fresh(1 .. n, used) \in T
  BY <1>7 DEF Fresh, T
<1> QED
  BY <1>8 DEF T

\* What is left of a finite set without some of its elements is counted.
LEMMA CountedWithout ==
  ASSUME NEW S, IsFiniteSet(S), NEW T, T \subseteq S
  PROVE  /\ IsFiniteSet(T) /\ IsFiniteSet(S \ T)
         /\ Cardinality(S) \in Nat /\ Cardinality(T) \in Nat
         /\ Cardinality(T) <= Cardinality(S)
         /\ Cardinality(S \ T) = Cardinality(S) - Cardinality(T)
         /\ Cardinality(S) = 0 <=> S = {}
<1>1. IsFiniteSet(T) /\ IsFiniteSet(S \ T) /\ S \cap T = T
  BY FS_Subset
<1>2. /\ Cardinality(S) \in Nat /\ Cardinality(T) \in Nat
      /\ Cardinality(T) <= Cardinality(S)
  BY <1>1, FS_Subset, FS_CardinalityType
<1>3. Cardinality(S \ T) = Cardinality(S) - Cardinality(T)
  BY <1>1, FS_Difference
<1> QED
  BY <1>1, <1>2, <1>3, FS_EmptySet

-----------------------------------------------------------------------------
(***************************************************************************)
(* Media.                                                                  *)
(***************************************************************************)

\* Removing unreferenced media deletes them, and flags the others.
LEMMA RemovedSound ==
  ASSUME NEW uses, program # "live",
         MediaSound(media, fServerMediaSessions, uses), fServerMediaSessions # NULL
  PROVE  LET left == Removed(media, fServerMediaSessions)
         IN  /\ MediaSound(left, NULL, uses) /\ DOMAIN left \subseteq DOMAIN media
             /\ \A m \in DOMAIN left : left[m].described = media[m].described
<1> DEFINE old == fServerMediaSessions
           left == Removed(media, old)
<1>1. /\ old \in DOMAIN media /\ DOMAIN media \subseteq Media
      /\ \A m \in DOMAIN media : media[m] \in MediaRecord
      /\ media[old].referenceCount = uses[old]
  BY DEF MediaSound
<1>2. CASE media[old].referenceCount = 0
  <2>1. DOMAIN left = DOMAIN media \ {old} /\ \A m \in DOMAIN left : left[m] = media[m]
    BY <1>2, Restricted DEF Removed
  <2> HIDE DEF left
  <2>2. DOMAIN left \subseteq DOMAIN media /\ \A m \in Media : uses[m] # 0 => m \in DOMAIN left
    BY <1>1, <1>2, <2>1 DEF MediaSound
  <2> QED
    BY <2>1, <2>2 DEF MediaSound, left
<1>3. CASE media[old].referenceCount # 0
  <2>1. /\ DOMAIN left = DOMAIN media
        /\ left[old] = [media[old] EXCEPT !.deleteWhenUnreferenced = TRUE]
        /\ \A m \in DOMAIN left : m # old => left[m] = media[m]
    BY <1>1, <1>3 DEF Removed
  <2> HIDE DEF left
  <2>2. /\ left[old] \in MediaRecord /\ left[old].referenceCount = uses[old]
        /\ left[old].described = media[old].described /\ uses[old] # 0
    BY <1>1, <1>3, <2>1 DEF MediaRecord
  <2> QED
    BY <2>1, <2>2 DEF MediaSound, left
<1> QED
  BY <1>2, <1>3

\* New media are unreferenced and not flagged.
LEMMA NewSound ==
  ASSUME NEW all, NEW uses, NEW sms, MediaSound(all, sms, uses),
         program = "live" => DOMAIN all = {},
         NEW new \in Media, new \notin DOMAIN all
  PROVE  /\ MediaSound(With(all, new, NewMedia), new, uses)
         /\ DOMAIN With(all, new, NewMedia) = DOMAIN all \cup {new}
         /\ \A m \in DOMAIN all : With(all, new, NewMedia)[m] = all[m]
<1> DEFINE r == With(all, new, NewMedia)
<1>1. /\ DOMAIN r = DOMAIN all \cup {new} /\ r[new] = NewMedia
      /\ \A m \in DOMAIN all : r[m] = all[m]
  BY DEF With
<1> HIDE DEF r
<1>2. /\ NewMedia \in MediaRecord /\ NewMedia.referenceCount = 0
      /\ NewMedia.deleteWhenUnreferenced = FALSE
  BY DEF NewMedia, MediaRecord
<1>3. uses[new] = 0 /\ uses \in [Media -> Nat]
  BY DEF MediaSound
<1>4. \A m \in DOMAIN r : /\ r[m] \in MediaRecord /\ r[m].referenceCount = uses[m]
                          /\ r[m].deleteWhenUnreferenced => uses[m] # 0
  BY <1>1, <1>2, <1>3 DEF MediaSound
<1>5. program = "live" => /\ DOMAIN r \subseteq {new}
                          /\ \A m \in DOMAIN r : ~r[m].deleteWhenUnreferenced
  BY <1>1, <1>2
<1> QED
  BY <1>1, <1>3, <1>4, <1>5 DEF MediaSound, r

\* What a look-up finds is there, and what is referred to is left there.
LEMMA FoundSound ==
  ASSUME NEW uses, MediaSound(media, fServerMediaSessions, uses),
         NEW first \in BOOLEAN, NEW exists \in BOOLEAN,
         program = "live" => exists, MayLookUp(first)
  PROVE  LET found == Found(first, exists)
         IN  /\ MediaSound(found.media, found.sms, uses)
             /\ \A m \in Media :
                   uses[m] # 0 \/ (program = "live" /\ m \in DOMAIN media)
                   => /\ m \in DOMAIN found.media
                      /\ found.media[m].described = media[m].described
             /\ program = "live" => found.sms \in DOMAIN found.media
<1> DEFINE old == fServerMediaSessions
           gone == /\ old # NULL /\ program # "live"
                   /\ ~exists \/ first
           left == IF gone THEN Removed(media, old) ELSE media
           new == Fresh(Media, DOMAIN left)
           found == Found(first, exists)
<1>1. found = IF old # NULL /\ ~gone THEN [sms |-> old, media |-> media]
              ELSE IF exists THEN [sms |-> new, media |-> With(left, new, NewMedia)]
              ELSE [sms |-> NULL, media |-> left]
  BY DEF Found
<1> HIDE DEF found
<1>2. MaxMedia \in Nat /\ NULL \notin Media /\ DOMAIN media \subseteq Media
  BY ServerAssumption DEF Media, MediaSound
<1>3. CASE old # NULL /\ ~gone
  <2>1. found.sms = old /\ found.media = media
    BY <1>1, <1>3
  <2>2. old \in DOMAIN media /\ \A m \in Media : uses[m] # 0 => m \in DOMAIN media
    BY <1>3 DEF MediaSound
  <2> QED
    BY <2>1, <2>2 DEF found
<1>4. CASE ~ (old # NULL /\ ~gone)
  <2> DEFINE sms == IF gone THEN NULL ELSE old
  <2>1. /\ MediaSound(left, sms, uses) /\ DOMAIN left \subseteq DOMAIN media
        /\ \A m \in DOMAIN left : left[m].described = media[m].described
        /\ program # "live" => sms = NULL
    <3>1. CASE gone
      BY <3>1, RemovedSound
    <3>2. CASE ~gone
      BY <1>4, <3>2
    <3> QED
      BY <3>1, <3>2
  <2> HIDE DEF sms
  <2>3. program = "live" => DOMAIN media = {} /\ DOMAIN left = {}
    BY <1>2, <1>4, <2>1 DEF MediaSound
  <2>4. \A m \in Media : uses[m] # 0 => m \in DOMAIN left
    BY <2>1 DEF MediaSound
  <2>5. CASE ~exists
    <3>1. found.sms = NULL /\ found.media = left /\ program # "live"
      BY <1>1, <1>4, <2>5
    <3> QED
      BY <2>1, <2>4, <3>1 DEF found
  <2>6. CASE exists
    <3>1. found.sms = new /\ found.media = With(left, new, NewMedia)
      BY <1>1, <1>4, <2>6
    <3>2. DOMAIN media # Media
      BY <1>4, <2>6 DEF MayLookUp
    <3>3. new \in Media /\ new \notin DOMAIN left
      <4>1. ~ (1 .. MaxMedia \subseteq DOMAIN left)
        BY <1>2, <2>1, <3>2 DEF Media
      <4> HIDE DEF left
      <4> QED
        BY <1>2, <4>1, FreshIsFree DEF Media
    <3> HIDE DEF left, new
    <3>4. /\ MediaSound(With(left, new, NewMedia), new, uses)
          /\ DOMAIN With(left, new, NewMedia) = DOMAIN left \cup {new}
          /\ \A m \in DOMAIN left : With(left, new, NewMedia)[m] = left[m]
      BY <2>1, <2>3, <3>3, NewSound
    <3> QED
      BY <2>1, <2>3, <2>4, <3>1, <3>4 DEF found
  <2> QED
    BY <2>5, <2>6
<1> QED
  BY <1>3, <1>4

\* One more reference.
LEMMA ReferencedSound ==
  ASSUME NEW all, NEW uses, NEW sms, MediaSound(all, sms, uses), NEW m \in DOMAIN all
  PROVE  /\ MediaSound(Referenced(all, m), sms, [uses EXCEPT ![m] = @ + 1])
         /\ DOMAIN Referenced(all, m) = DOMAIN all
         /\ \A n \in DOMAIN all : Referenced(all, m)[n].described = all[n].described
<1> DEFINE r == Referenced(all, m)
           u == [uses EXCEPT ![m] = @ + 1]
<1>1. /\ m \in Media /\ all[m] \in MediaRecord /\ uses \in [Media -> Nat]
      /\ all[m].referenceCount = uses[m]
  BY DEF MediaSound
<1>2. /\ DOMAIN r = DOMAIN all /\ r[m] = [all[m] EXCEPT !.referenceCount = @ + 1]
      /\ \A n \in DOMAIN all : n # m => r[n] = all[n]
  BY DEF Referenced
<1>3. u \in [Media -> Nat] /\ u[m] = uses[m] + 1 /\ \A n \in Media : n # m => u[n] = uses[n]
  BY <1>1
<1> HIDE DEF r, u
<1>4. /\ r[m] \in MediaRecord /\ r[m].referenceCount = u[m] /\ u[m] # 0
      /\ r[m].described = all[m].described
      /\ r[m].deleteWhenUnreferenced <=> all[m].deleteWhenUnreferenced
  BY <1>1, <1>2, <1>3 DEF MediaRecord
<1>5. \A n \in DOMAIN r : /\ r[n] \in MediaRecord /\ r[n].referenceCount = u[n]
                          /\ r[n].deleteWhenUnreferenced => u[n] # 0
  BY <1>2, <1>3, <1>4 DEF MediaSound
<1>6. program = "live" => /\ DOMAIN r \subseteq {sms}
                          /\ \A n \in DOMAIN r : ~r[n].deleteWhenUnreferenced
  BY <1>2, <1>4 DEF MediaSound
<1>7. /\ \A n \in Media : u[n] # 0 => n \in DOMAIN r
      /\ DOMAIN r \subseteq Media /\ sms \in DOMAIN r \cup {NULL}
  BY <1>2, <1>3 DEF MediaSound
<1>8. MediaSound(r, sms, u)
  BY <1>3, <1>5, <1>6, <1>7 DEF MediaSound
<1> QED
  BY <1>2, <1>4, <1>8 DEF r, u

\* References are given up, of media that were referred to so often.
LEMMA GivenUpSound ==
  ASSUME MediaSound(media, fServerMediaSessions, UsesMap),
         NEW released \in [DOMAIN media -> Nat], NEW uses \in [Media -> Nat],
         \A m \in DOMAIN media :
            released[m] <= UsesMap[m] /\ uses[m] = UsesMap[m] - released[m],
         \A m \in Media \ DOMAIN media : uses[m] = UsesMap[m],
         GiveUpMedia(released)
  PROVE  /\ program' = program => MediaSound(media', fServerMediaSessions', uses)
         /\ \A m \in DOMAIN media' :
               m \in DOMAIN media /\ media'[m].described = media[m].described
<1> DEFINE left == [m \in DOMAIN media |->
                       [media[m] EXCEPT !.referenceCount = @ - released[m]]]
           unused == {m \in DOMAIN media :
                         /\ left[m] # media[m] /\ left[m].referenceCount = 0
                         /\ left[m].deleteWhenUnreferenced}
<1>1. /\ media' = Restrict(left, DOMAIN media \ unused)
      /\ fServerMediaSessions' = IF unused = {} THEN fServerMediaSessions ELSE NULL
  BY DEF GiveUpMedia
<1>2. /\ DOMAIN media \subseteq Media /\ UsesMap \in [Media -> Nat]
      /\ \A m \in DOMAIN media : /\ media[m] \in MediaRecord
                                 /\ media[m].referenceCount = UsesMap[m]
                                 /\ media[m].deleteWhenUnreferenced => UsesMap[m] # 0
  BY DEF MediaSound
<1>3. ASSUME NEW m \in DOMAIN media
      PROVE  /\ left[m] \in MediaRecord /\ left[m].referenceCount = uses[m]
             /\ left[m].described = media[m].described
             /\ left[m].deleteWhenUnreferenced <=> media[m].deleteWhenUnreferenced
             /\ m \notin unused /\ left[m].deleteWhenUnreferenced => uses[m] # 0
             /\ m \in unused => uses[m] = 0
             /\ m \in unused => media[m].deleteWhenUnreferenced
  <2>1. /\ left[m] = [media[m] EXCEPT !.referenceCount = @ - released[m]]
        /\ uses[m] \in Nat /\ UsesMap[m] \in Nat /\ uses[m] = UsesMap[m] - released[m]
        /\ media[m] \in MediaRecord /\ media[m].referenceCount = UsesMap[m]
    BY <1>2
  <2>2. /\ left[m] \in MediaRecord /\ left[m].referenceCount = uses[m]
        /\ left[m].described = media[m].described
        /\ left[m].deleteWhenUnreferenced <=> media[m].deleteWhenUnreferenced
    <3> HIDE DEF left
    <3> QED
      BY <2>1 DEF MediaRecord
  <2>3. m \in unused <=> /\ left[m] # media[m] /\ left[m].referenceCount = 0
                         /\ left[m].deleteWhenUnreferenced
    OBVIOUS
  <2> HIDE DEF left, unused
  <2>4. left[m] = media[m] => uses[m] = UsesMap[m]
    BY <2>1, <2>2
  <2> QED
    BY <1>2, <2>2, <2>3, <2>4
<1> HIDE DEF left, unused
<1>4. /\ DOMAIN media' = DOMAIN media \ unused
      /\ \A m \in DOMAIN media' : media'[m] = left[m]
  BY <1>1, Restricted
<1>5. \A m \in DOMAIN media' :
         m \in DOMAIN media /\ media'[m].described = media[m].described
  BY <1>3, <1>4
<1>6. ASSUME program' = program
      PROVE  MediaSound(media', fServerMediaSessions', uses)
  <2>1. \A m \in DOMAIN media' :
           /\ media'[m] \in MediaRecord /\ media'[m].referenceCount = uses[m]
           /\ media'[m].deleteWhenUnreferenced => uses[m] # 0
    BY <1>3, <1>4
  <2>2. \A m \in Media : uses[m] # 0 => m \in DOMAIN media'
    <3>1. ASSUME NEW m \in Media, m \notin DOMAIN media
          PROVE  uses[m] = 0
      BY <3>1 DEF MediaSound
    <3> QED
      BY <1>3, <1>4, <3>1
  <2>3. fServerMediaSessions' \in DOMAIN media' \cup {NULL}
    BY <1>1, <1>4 DEF MediaSound
  <2>4. program = "live" => unused = {}
    BY <1>3 DEF MediaSound, unused
  <2>5. program = "live" => /\ DOMAIN media' \subseteq {fServerMediaSessions'}
                            /\ \A m \in DOMAIN media' : ~media'[m].deleteWhenUnreferenced
    BY <1>1, <1>3, <1>4, <2>4 DEF MediaSound
  <2>6. DOMAIN media' \subseteq Media
    BY <1>2, <1>4
  <2> QED
    BY <2>1, <2>2, <2>3, <2>5, <2>6 DEF MediaSound
<1> QED
  BY <1>5, <1>6

-----------------------------------------------------------------------------
(***************************************************************************)
(* Streams.                                                                *)
(***************************************************************************)

\* What tracks refer to, without some of the tracks.
Without(f, pairs) == [pair \in DOMAIN f \ pairs |-> f[pair]]

\* The tracks are numbered from 1.
LEMMA TrackNumbers ==
  Tracks \subseteq 1 .. NumTracks /\ 1 \in Tracks /\ NumTracks \in Nat \ {0}
BY ServerAssumption DEF Tracks

\* The values of the three maps.
LEMMA Maps ==
  /\ DOMAIN TokenMap = AllPairs /\ DOMAIN MediaMap = AllPairs /\ DOMAIN SocketMap = AllPairs
  /\ \A pair \in AllPairs : /\ TokenMap[pair] = Token(pair)
                            /\ MediaMap[pair] = sessions[pair[1]].media
                            /\ SocketMap[pair] = State(pair).tcpSocketNum
BY DEF TokenMap, MediaMap, SocketMap

\* A stream is deleted exactly when no track is left that refers to it, and
\* otherwise the tracks that are left are counted.
LEMMA ReferencesLeft ==
  ASSUME StreamsSound(streams, fLastStreamToken, TokenMap, MediaMap),
         NEW pairs, pairs \subseteq AllPairs, NEW x \in DOMAIN streams
  PROVE  /\ x \in ReferencedByThese(pairs)
                <=> \A pair \in AllPairs \ pairs : Token(pair) # x
         /\ x \notin ReferencedByThese(pairs) =>
               /\ streams[x].referenceCount - References(pairs, x) \in Nat
               /\ streams[x].referenceCount - References(pairs, x)
                      = Cardinality({pair \in AllPairs \ pairs : Token(pair) = x})
<1> DEFINE S == {pair \in AllPairs : Token(pair) = x}
           T == {pair \in pairs : Token(pair) = x}
           n == streams[x].referenceCount
           k == References(pairs, x)
<1>1. S = {pair \in DOMAIN TokenMap : TokenMap[pair] = x}
  BY Maps
<1>2. n = Cardinality(S) /\ S # {} /\ IsFiniteSet(AllPairs)
  <2>1. n = Cardinality({pair \in DOMAIN TokenMap : TokenMap[pair] = x})
    BY DEF StreamsSound
  <2>2. \E pair \in DOMAIN TokenMap : TokenMap[pair] = x
    BY DEF StreamsSound
  <2>3. IsFiniteSet(DOMAIN TokenMap)
    BY DEF StreamsSound
  <2> HIDE DEF S, n
  <2> QED
    BY <1>1, <2>1, <2>2, <2>3, Maps
<1>3. IsFiniteSet(S) /\ T \subseteq S
  BY <1>2, FS_Subset
<1>4. k = Cardinality(T)
  BY DEF References
<1>5. {pair \in AllPairs \ pairs : Token(pair) = x} = S \ T
  OBVIOUS
<1>6. x \in ReferencedByThese(pairs) <=> k > 0 /\ n <= k
  BY DEF ReferencedByThese
<1> HIDE DEF S, T, n, k
<1>7. /\ Cardinality(S) \in Nat /\ Cardinality(T) \in Nat
      /\ Cardinality(T) <= Cardinality(S)
      /\ Cardinality(S \ T) = Cardinality(S) - Cardinality(T)
      /\ Cardinality(S) # 0
  BY <1>2, <1>3, CountedWithout
<1>8. Cardinality(S \ T) \in Nat /\ (Cardinality(S \ T) = 0 <=> S \ T = {})
  BY <1>3, CountedWithout, FS_EmptySet, FS_CardinalityType
<1>9. k > 0 /\ n <= k <=> S \ T = {}
  BY <1>2, <1>4, <1>7, <1>8
<1>10. S \ T = {} <=> \A pair \in AllPairs \ pairs : Token(pair) # x
  BY <1>5
<1>11. n - k = Cardinality(S \ T) /\ n - k \in Nat
  BY <1>2, <1>4, <1>7, <1>8
<1> QED
  BY <1>5, <1>6, <1>9, <1>10, <1>11 DEF n, k

\* deleteStream() of some tracks leaves streams and destinations as the other
\* tracks refer to them.
LEMMA DeletedSound ==
  ASSUME StreamsSound(streams, fLastStreamToken, TokenMap, MediaMap),
         DestinationsSound(streams, destinations, TokenMap, SocketMap),
         NEW pairs, pairs \subseteq AllPairs
  PROVE  LET d == Deleted(pairs)
         IN  /\ StreamsSound(d.streams, d.last, Without(TokenMap, pairs),
                             Without(MediaMap, pairs))
             /\ DestinationsSound(d.streams, d.destinations, Without(TokenMap, pairs),
                                  Without(SocketMap, pairs))
             /\ \A x \in DOMAIN d.streams : /\ x \in DOMAIN streams
                                            /\ x \notin ReferencedByThese(pairs)
                                            /\ d.streams[x].media = streams[x].media
             /\ \A x \in DOMAIN streams : \A target \in streams[x].targets :
                   \/ x \in DOMAIN d.streams /\ target \in d.streams[x].targets
                   \/ \E e \in destinations : /\ <<e.session, e.track>> \in pairs
                                              /\ e.session = target.session
                                              /\ e.socket = target.socket
<1> DEFINE d == Deleted(pairs)
           gone == ReferencedByThese(pairs)
           of(e) == <<e.session, e.track>> \in pairs
           ended(x) == {[session |-> e.session, socket |-> e.socket] :
                           e \in {e \in destinations :
                                     of(e) /\ Token(<<e.session, e.track>>) = x}}
           tokens == Without(TokenMap, pairs)
           left == AllPairs \ pairs
<1>1. /\ DOMAIN d.streams = DOMAIN streams \ gone
      /\ \A x \in DOMAIN d.streams :
            d.streams[x] = [streams[x] EXCEPT !.referenceCount = @ - References(pairs, x),
                                              !.targets = @ \ ended(x)]
      /\ d.last = [key \in DOMAIN fLastStreamToken |->
                      IF fLastStreamToken[key] \in gone THEN NULL
                      ELSE fLastStreamToken[key]]
      /\ d.destinations = {e \in destinations : ~of(e)}
  BY DEF Deleted
<1>2. /\ DOMAIN tokens = left /\ \A pair \in left : tokens[pair] = Token(pair)
      /\ \A pair \in left : /\ Without(MediaMap, pairs)[pair] = MediaMap[pair]
                            /\ Without(SocketMap, pairs)[pair] = SocketMap[pair]
                            /\ TokenMap[pair] = Token(pair)
      /\ DOMAIN TokenMap = AllPairs /\ left \subseteq AllPairs
  BY Maps DEF Without
<1> HIDE DEF d, tokens
<1>3. ASSUME NEW x \in DOMAIN d.streams
      PROVE  /\ x \in DOMAIN streams /\ d.streams[x] \in StreamRecord
             /\ d.streams[x].media = streams[x].media
             /\ d.streams[x].track = streams[x].track
             /\ d.streams[x].reclaimed <=> streams[x].reclaimed
             /\ d.streams[x].targets = streams[x].targets \ ended(x)
             /\ d.streams[x].referenceCount
                    = Cardinality({pair \in DOMAIN tokens : tokens[pair] = x})
             /\ \E pair \in DOMAIN tokens : tokens[pair] = x
  <2>1. x \in DOMAIN streams /\ x \notin gone /\ streams[x] \in StreamRecord
    BY <1>1 DEF StreamsSound
  <2> DEFINE n == streams[x].referenceCount - References(pairs, x)
             e == ended(x)
  <2>2. n \in Nat /\ n = Cardinality({pair \in left : Token(pair) = x})
    BY <2>1, ReferencesLeft
  <2>3. \E pair \in left : Token(pair) = x
    BY <2>1, ReferencesLeft
  <2>4. d.streams[x] = [streams[x] EXCEPT !.referenceCount = n, !.targets = @ \ e]
    BY <1>1
  <2> HIDE DEF n, e
  <2>5. /\ d.streams[x] \in StreamRecord /\ d.streams[x].media = streams[x].media
        /\ d.streams[x].track = streams[x].track
        /\ d.streams[x].reclaimed <=> streams[x].reclaimed
        /\ d.streams[x].targets = streams[x].targets \ e
        /\ d.streams[x].referenceCount = n
    BY <2>1, <2>2, <2>4 DEF StreamRecord
  <2>6. {pair \in DOMAIN tokens : tokens[pair] = x} = {pair \in left : Token(pair) = x}
    BY <1>2
  <2> QED
    BY <1>2, <2>1, <2>2, <2>3, <2>5, <2>6 DEF e
<1>4. ASSUME NEW pair \in DOMAIN tokens, tokens[pair] # NULL
      PROVE  /\ tokens[pair] \in DOMAIN d.streams
             /\ d.streams[tokens[pair]].media = Without(MediaMap, pairs)[pair]
             /\ d.streams[tokens[pair]].track = pair[2]
  <2> DEFINE x == tokens[pair]
  <2>1. /\ pair \in left /\ x = Token(pair) /\ TokenMap[pair] = x
        /\ Without(MediaMap, pairs)[pair] = MediaMap[pair]
    BY <1>2
  <2> HIDE DEF x
  <2>2. /\ x \in DOMAIN streams /\ streams[x].media = MediaMap[pair]
        /\ streams[x].track = pair[2]
    BY <1>2, <1>4, <2>1 DEF StreamsSound, x
  <2>3. x \notin gone
    BY <2>1, <2>2, ReferencesLeft
  <2>4. x \in DOMAIN d.streams
    BY <1>1, <2>2, <2>3
  <2> QED
    BY <1>3, <2>1, <2>2, <2>4 DEF x
<1>5. IsFiniteSet(DOMAIN tokens) /\ DOMAIN d.streams \subseteq Streams
  BY <1>1, <1>2, FS_Subset DEF StreamsSound
<1>6. fLastStreamToken \in [Keys -> Streams \cup {NULL}]
  BY DEF StreamsSound
<1>7. d.last \in [Keys -> Streams \cup {NULL}]
  BY <1>1, <1>6
<1>8. ASSUME NEW key \in Keys, d.last[key] # NULL
      PROVE  /\ d.last[key] \in DOMAIN d.streams /\ ~d.streams[d.last[key]].reclaimed
             /\ key = <<d.streams[d.last[key]].media, d.streams[d.last[key]].track>>
  <2> DEFINE x == d.last[key]
  <2>1. x = fLastStreamToken[key] /\ x \notin gone /\ x # NULL
    BY <1>1, <1>6, <1>8
  <2> HIDE DEF x
  <2>2. /\ x \in DOMAIN streams /\ ~streams[x].reclaimed
        /\ key = <<streams[x].media, streams[x].track>>
    BY <2>1 DEF StreamsSound
  <2>3. x \in DOMAIN d.streams
    BY <1>1, <2>1, <2>2
  <2> QED
    BY <1>3, <2>2, <2>3 DEF x
<1>9. ASSUME program = "live", NEW x \in DOMAIN d.streams
      PROVE  d.last[<<d.streams[x].media, d.streams[x].track>>] = x
  <2>1. /\ x \in DOMAIN streams /\ x \notin gone
        /\ d.streams[x].media = streams[x].media /\ d.streams[x].track = streams[x].track
    BY <1>1, <1>3
  <2> DEFINE key == <<streams[x].media, streams[x].track>>
  <2>2. fLastStreamToken[key] = x
    BY <1>9, <2>1 DEF StreamsSound
  <2>3. key \in Keys
    <3>1. streams[x] \in StreamRecord
      BY <2>1 DEF StreamsSound
    <3>2. streams[x].media \in Media /\ streams[x].track \in 1 .. NumTracks
      BY <3>1, TrackNumbers DEF StreamRecord
    <3> QED
      BY <3>2 DEF Keys
  <2>4. d.last[key] = x
    BY <1>1, <1>6, <2>1, <2>2, <2>3
  <2> QED
    BY <2>1, <2>4
<1>10. StreamsSound(d.streams, d.last, tokens, Without(MediaMap, pairs))
  BY <1>3, <1>4, <1>5, <1>7, <1>8, <1>9 DEF StreamsSound
<1>11. ASSUME NEW e \in d.destinations
       PROVE  /\ <<e.session, e.track>> \in DOMAIN tokens
              /\ tokens[<<e.session, e.track>>] # NULL
              /\ e.socket = Without(SocketMap, pairs)[<<e.session, e.track>>]
  <2> DEFINE pair == <<e.session, e.track>>
  <2>1. /\ pair \in AllPairs /\ TokenMap[pair] # NULL /\ e.socket = SocketMap[pair]
        /\ pair \notin pairs
    BY <1>1, <1>2 DEF DestinationsSound
  <2> HIDE DEF pair
  <2> QED
    BY <1>2, <2>1 DEF pair
<1>12. ASSUME NEW x \in DOMAIN d.streams, NEW target \in d.streams[x].targets
       PROVE  \E e \in d.destinations :
                 /\ e.session = target.session /\ e.socket = target.socket
                 /\ tokens[<<e.session, e.track>>] = x
  <2>1. x \in DOMAIN streams /\ target \in streams[x].targets /\ target \notin ended(x)
    BY <1>3
  <2>2. PICK e \in destinations :
           /\ e.session = target.session /\ e.socket = target.socket
           /\ TokenMap[<<e.session, e.track>>] = x
    BY <2>1 DEF DestinationsSound
  <2>3. target \in Target
    BY <2>1 DEF StreamsSound, StreamRecord
  <2>4. <<e.session, e.track>> \in AllPairs
    BY <1>2 DEF DestinationsSound
  <2>5. ~of(e)
    <3>1. target = [session |-> e.session, socket |-> e.socket]
      BY <2>2, <2>3 DEF Target
    <3>2. Token(<<e.session, e.track>>) = x
      BY <2>2, <2>4, Maps
    <3> QED
      BY <2>1, <3>1, <3>2
  <2> QED
    BY <1>1, <1>2, <2>2, <2>4, <2>5
<1>13. d.destinations \subseteq [session : SessionIds, track : Tracks,
                                 socket : Sockets \cup {UDP}]
  BY <1>1 DEF DestinationsSound
<1>14. DestinationsSound(d.streams, d.destinations, tokens, Without(SocketMap, pairs))
  BY <1>11, <1>12, <1>13 DEF DestinationsSound
<1>15. ASSUME NEW x \in DOMAIN streams, NEW target \in streams[x].targets,
              ~ (x \in DOMAIN d.streams /\ target \in d.streams[x].targets)
       PROVE  \E e \in destinations : /\ <<e.session, e.track>> \in pairs
                                      /\ e.session = target.session
                                      /\ e.socket = target.socket
  <2>1. CASE x \in gone
    <3>1. PICK e \in destinations :
             /\ e.session = target.session /\ e.socket = target.socket
             /\ TokenMap[<<e.session, e.track>>] = x
      BY DEF DestinationsSound
    <3>2. <<e.session, e.track>> \in AllPairs /\ Token(<<e.session, e.track>>) = x
      BY <1>2, <3>1, Maps DEF DestinationsSound
    <3>3. <<e.session, e.track>> \in pairs
      BY <2>1, <3>2, ReferencesLeft
    <3> QED
      BY <3>1, <3>3
  <2>2. CASE x \notin gone
    <3>1. x \in DOMAIN d.streams
      BY <1>1, <2>2
    <3>2. target \in ended(x)
      BY <1>3, <1>15, <3>1
    <3> QED
      BY <3>2
  <2> QED
    BY <2>1, <2>2
<1>16. \A x \in DOMAIN d.streams : /\ x \in DOMAIN streams /\ x \notin gone
                                   /\ d.streams[x].media = streams[x].media
  BY <1>1, <1>3
<1> QED
  BY <1>10, <1>14, <1>15, <1>16 DEF d, tokens

\* The tracks of T2 refer to streams as those of T1 do, but for one, which did
\* not refer to any and now refers to y.
SetUp(T1, T2, pair, y) ==
    /\ pair \in DOMAIN T2 /\ T2[pair] = y
    /\ pair \in DOMAIN T1 => T1[pair] = NULL
    /\ DOMAIN T1 \subseteq DOMAIN T2
    /\ \A p \in DOMAIN T2 : p # pair =>
          IF p \in DOMAIN T1 THEN T2[p] = T1[p] ELSE T2[p] = NULL

\* The tracks that refer to a stream.
Referring(tokens, x) == {pair \in DOMAIN tokens : tokens[pair] = x}

\* One more track refers to a stream, and all others to theirs.
LEMMA OneReferenceMore ==
  ASSUME NEW T1, NEW T2, NEW pair, NEW y \in Streams, SetUp(T1, T2, pair, y),
         IsFiniteSet(DOMAIN T2), NEW x \in Streams
  PROVE  /\ x # y => Referring(T2, x) = Referring(T1, x)
         /\ \A p \in DOMAIN T2 : T2[p] = x /\ p # pair => p \in DOMAIN T1 /\ T1[p] = x
         /\ Cardinality(Referring(T2, y)) = Cardinality(Referring(T1, y)) + 1
<1>1. NULL \notin Streams
  BY ServerAssumption DEF Streams
<1>2. ASSUME NEW z \in Streams, NEW p \in DOMAIN T2, p # pair
      PROVE  T2[p] = z <=> p \in DOMAIN T1 /\ T1[p] = z
  <2>1. IF p \in DOMAIN T1 THEN T2[p] = T1[p] ELSE T2[p] = NULL
    BY <1>2 DEF SetUp
  <2> QED
    BY <1>1, <2>1
<1>3. pair \in DOMAIN T1 => T1[pair] \notin Streams
  BY <1>1 DEF SetUp
<1>4. pair \in DOMAIN T2 /\ T2[pair] = y /\ DOMAIN T1 \subseteq DOMAIN T2
  BY DEF SetUp
<1>5. x # y => {p \in DOMAIN T2 : T2[p] = x} = {p \in DOMAIN T1 : T1[p] = x}
  BY <1>2, <1>3, <1>4
<1> DEFINE S == {p \in DOMAIN T1 : T1[p] = y}
<1>6. {p \in DOMAIN T2 : T2[p] = y} = S \cup {pair} /\ pair \notin S
  BY <1>2, <1>3, <1>4
<1>7. IsFiniteSet(S)
  BY <1>4, FS_Subset
<1>8. Cardinality(S \cup {pair}) = Cardinality(S) + 1
  <2> HIDE DEF S
  <2> QED
    BY <1>6, <1>7, FS_AddElement
<1> QED
  BY <1>2, <1>5, <1>6, <1>8 DEF Referring

\* The last stream of a track is this one.
LastSetUp(last, m, track, y) == [last EXCEPT ![<<m, track>>] = y]

\* The streams in "left", to which the tracks of T1 refer, leave room for one more,
\* and that of "pair", of media m, is set up.
MaySetUp(left, T1, M1, T2, M2, pair, m, track) ==
    /\ StreamsSound(left.streams, left.last, T1, M1)
    /\ DOMAIN left.streams # Streams
    /\ SetUp(T1, T2, pair, Stream(left, m, track).token) /\ IsFiniteSet(DOMAIN T2)
    /\ \A p \in DOMAIN T1 : p # pair => M2[p] = M1[p]
    /\ pair[2] = track /\ M2[pair] = m

\* The stream it is given is then among all, and the others are as before.
IsSetUp(left, T2, M2, m, track) ==
    LET r == Stream(left, m, track)
    IN  /\ StreamsSound(r.all, LastSetUp(left.last, m, track, r.token), T2, M2)
        /\ r.token \in Streams /\ DOMAIN r.all = DOMAIN left.streams \cup {r.token}
        /\ \A x \in DOMAIN left.streams : /\ r.all[x].targets = left.streams[x].targets
                                          /\ r.all[x].media = left.streams[x].media
        /\ r.all[r.token].media = m
        /\ r.token \notin DOMAIN left.streams => r.all[r.token].targets = {}
        /\ program = "live" /\ left.last[<<m, track>>] # NULL
               => r.token \in DOMAIN left.streams

\* getStreamParameters() gives a track a stream of its own, or the last one of
\* this track where the first source is shared.
LEMMA StreamSound ==
  ASSUME NEW left, NEW T1, NEW M1, NEW T2, NEW M2, NEW pair,
         NEW m \in Media, NEW track \in Tracks,
         MaySetUp(left, T1, M1, T2, M2, pair, m, track)
  PROVE  IsSetUp(left, T2, M2, m, track)
<1> DEFINE st == left.streams
           last == left.last
           key == <<m, track>>
           r == Stream(left, m, track)
           y == r.token
           all == r.all
           new == Fresh(Streams, DOMAIN st)
           last2 == [last EXCEPT ![key] = y]
<1>1. /\ StreamsSound(left.streams, left.last, T1, M1)
      /\ DOMAIN left.streams # Streams
      /\ SetUp(T1, T2, pair, Stream(left, m, track).token) /\ IsFiniteSet(DOMAIN T2)
      /\ \A p \in DOMAIN T1 : p # pair => M2[p] = M1[p]
      /\ pair[2] = track /\ M2[pair] = m
  BY DEF MaySetUp
<1> USE <1>1
<1>2. r = IF last[key] # NULL /\ program = "live"
          THEN [token |-> last[key],
                all |-> [st EXCEPT ![last[key]].referenceCount = @ + 1]]
          ELSE [token |-> new, all |-> With(st, new, NewStream(m, track))]
  BY DEF Stream, fReuseFirstSource
<1>3. key \in Keys /\ NULL \notin Streams /\ MaxStreams \in Nat
  BY TrackNumbers, ServerAssumption DEF Keys, Streams
<1>4. /\ DOMAIN st \subseteq Streams /\ last \in [Keys -> Streams \cup {NULL}]
      /\ \A x \in DOMAIN st : st[x] \in StreamRecord
  BY DEF StreamsSound
<1>5. SetUp(T1, T2, pair, y)
  OBVIOUS
<1> DEFINE old == last[key]
<1>6. /\ y \in Streams /\ DOMAIN all = DOMAIN st \cup {y}
      /\ \A x \in DOMAIN st : x # y => all[x] = st[x]
      /\ IF y \in DOMAIN st
         THEN /\ all[y] = [st[y] EXCEPT !.referenceCount = @ + 1]
              /\ last[key] = y
         ELSE all[y] = NewStream(m, track) /\ (program = "live" => last[key] = NULL)
  <2> HIDE DEF r
  <2>1. CASE old # NULL /\ program = "live"
    <3>1. y = old /\ all = [st EXCEPT ![old].referenceCount = @ + 1]
      BY <1>2, <2>1
    <3>2. old \in DOMAIN st
      BY <1>3, <2>1 DEF StreamsSound
    <3> HIDE DEF st, old, y, all
    <3>3. /\ DOMAIN all = DOMAIN st
          /\ all[old] = [st[old] EXCEPT !.referenceCount = @ + 1]
          /\ \A x \in DOMAIN st : x # old => all[x] = st[x]
      BY <3>1, <3>2
    <3>4. old \in Streams
      BY <1>4, <3>2
    <3> QED
      BY <3>1, <3>2, <3>3, <3>4 DEF old
  <2>2. CASE ~ (old # NULL /\ program = "live")
    <3>1. y = new /\ all = With(st, new, NewStream(m, track))
      BY <1>2, <2>2
    <3>2. new \in Streams /\ new \notin DOMAIN st
      <4>1. ~ (1 .. MaxStreams \subseteq DOMAIN st)
        BY <1>4 DEF Streams
      <4> HIDE DEF st
      <4> QED
        BY <1>3, <4>1, FreshIsFree DEF Streams
    <3> HIDE DEF new, y, all, st
    <3>3. /\ DOMAIN all = DOMAIN st \cup {new} /\ all[new] = NewStream(m, track)
          /\ \A x \in DOMAIN st : x # new => all[x] = st[x]
      BY <3>1 DEF With
    <3> QED
      BY <2>2, <3>1, <3>2, <3>3 DEF old
  <2> QED
    BY <2>1, <2>2
<1> HIDE DEF r, y, all, new
<1>7. ASSUME NEW x \in DOMAIN st
      PROVE  /\ x \in DOMAIN all /\ all[x] \in StreamRecord
             /\ all[x].media = st[x].media /\ all[x].track = st[x].track
             /\ all[x].reclaimed <=> st[x].reclaimed
             /\ all[x].targets = st[x].targets
             /\ all[x].referenceCount = st[x].referenceCount + (IF x = y THEN 1 ELSE 0)
  <2>1. st[x] \in StreamRecord /\ x \in DOMAIN all
    BY <1>4, <1>6
  <2>2. all[x] = IF x = y THEN [st[x] EXCEPT !.referenceCount = @ + 1] ELSE st[x]
    BY <1>6
  <2> HIDE DEF st
  <2> QED
    BY <2>1, <2>2 DEF StreamRecord
<1>8. ASSUME y \notin DOMAIN st
      PROVE  /\ all[y] \in StreamRecord /\ all[y].media = m /\ all[y].track = track
             /\ ~all[y].reclaimed /\ all[y].targets = {} /\ all[y].referenceCount = 1
  <2>1. all[y] = NewStream(m, track)
    BY <1>6, <1>8
  <2> QED
    BY <2>1 DEF NewStream, StreamRecord
<1>9. y \in DOMAIN st => /\ last[key] = y /\ ~st[y].reclaimed
                         /\ st[y].media = m /\ st[y].track = track
  <2>1. ASSUME y \in DOMAIN st
        PROVE  last[key] = y /\ last[key] # NULL
    BY <1>3, <1>6, <2>1
  <2>2. ASSUME y \in DOMAIN st
        PROVE  ~st[y].reclaimed /\ key = <<st[y].media, st[y].track>>
    BY <1>3, <2>1, <2>2 DEF StreamsSound
  <2> QED
    BY <2>1, <2>2
<1>10. /\ y \in DOMAIN all /\ all[y].media = m /\ all[y].track = track
       /\ ~all[y].reclaimed /\ all[y] \in StreamRecord
       /\ y \notin DOMAIN st => all[y].targets = {}
  BY <1>6, <1>7, <1>8, <1>9
<1>11. ASSUME NEW x \in DOMAIN all
       PROVE  /\ all[x] \in StreamRecord /\ all[x].referenceCount = Cardinality(Referring(T2, x))
              /\ \E p \in DOMAIN T2 : T2[p] = x
  <2>1. x \in Streams /\ x # NULL
    BY <1>3, <1>4, <1>6
  <2>2. /\ x # y => Referring(T2, x) = Referring(T1, x)
        /\ Cardinality(Referring(T2, y)) = Cardinality(Referring(T1, y)) + 1
    BY <1>5, <1>6, <2>1, OneReferenceMore
  <2>3. CASE x # y
    <3>1. x \in DOMAIN st /\ st[x].referenceCount \in Nat
      BY <1>4, <1>6, <2>3 DEF StreamRecord
    <3>2. st[x].referenceCount = Cardinality(Referring(T1, x)) /\ \E p \in DOMAIN T1 : T1[p] = x
      BY <3>1 DEF StreamsSound, Referring
    <3>3. Referring(T1, x) = Referring(T2, x)
      BY <2>2, <2>3
    <3>4. \E p \in Referring(T1, x) : TRUE
      BY <3>2 DEF Referring
    <3>5. \E p \in Referring(T2, x) : TRUE
      BY <3>3, <3>4
    <3>6. \E p \in DOMAIN T2 : T2[p] = x
      BY <3>5 DEF Referring
    <3>7. all[x].referenceCount = Cardinality(Referring(T1, x)) /\ all[x] \in StreamRecord
      BY <1>7, <2>3, <3>1, <3>2
    <3> QED
      BY <3>3, <3>6, <3>7
  <2>4. CASE x = y
    <3>1. \E p \in DOMAIN T2 : T2[p] = y
      BY <1>5 DEF SetUp
    <3>2. CASE y \in DOMAIN st
      <4>1. st[y].referenceCount = Cardinality(Referring(T1, y))
        BY <3>2 DEF StreamsSound, Referring
      <4> HIDE DEF st
      <4> QED
        BY <1>7, <2>2, <2>4, <3>1, <3>2, <4>1
    <3>3. CASE y \notin DOMAIN st
      <4>1. Referring(T1, y) = {}
        <5>1. ASSUME NEW p \in DOMAIN T1
              PROVE  T1[p] # y
          <6>1. T1[p] # NULL => T1[p] \in DOMAIN st
            BY DEF StreamsSound
          <6> QED
            BY <2>1, <2>4, <3>3, <6>1
        <5> QED
          BY <5>1 DEF Referring
      <4>2. Cardinality(Referring(T1, y)) = 0
        BY <4>1, FS_EmptySet
      <4> HIDE DEF st
      <4> QED
        BY <1>8, <2>2, <2>4, <3>1, <3>3, <4>2
    <3> QED
      BY <3>2, <3>3
  <2> QED
    BY <2>3, <2>4
<1>12. ASSUME NEW p \in DOMAIN T2, T2[p] # NULL
       PROVE  /\ T2[p] \in DOMAIN all /\ all[T2[p]].media = M2[p]
              /\ all[T2[p]].track = p[2]
  <2>1. CASE p = pair
    BY <1>5, <1>10, <2>1 DEF SetUp
  <2>2. CASE p # pair
    <3>1. p \in DOMAIN T1 /\ T2[p] = T1[p] /\ M2[p] = M1[p]
      BY <1>5, <1>12, <2>2 DEF SetUp
    <3>2. /\ T1[p] \in DOMAIN st /\ st[T1[p]].media = M1[p] /\ st[T1[p]].track = p[2]
      BY <1>12, <3>1 DEF StreamsSound
    <3> QED
      BY <1>7, <3>1, <3>2
  <2> QED
    BY <2>1, <2>2
<1>13. /\ last2 \in [Keys -> Streams \cup {NULL}] /\ last2[key] = y
       /\ \A other \in Keys : other # key => last2[other] = last[other]
  BY <1>3, <1>4, <1>6
<1> HIDE DEF last2
<1>14. ASSUME NEW other \in Keys, last2[other] # NULL
       PROVE  /\ last2[other] \in DOMAIN all /\ ~all[last2[other]].reclaimed
              /\ other = <<all[last2[other]].media, all[last2[other]].track>>
  <2>1. CASE other = key
    BY <1>10, <1>13, <2>1
  <2>2. CASE other # key
    <3>1. last2[other] = last[other]
      BY <1>13, <2>2
    <3>2. /\ last[other] \in DOMAIN st /\ ~st[last[other]].reclaimed
          /\ other = <<st[last[other]].media, st[last[other]].track>>
      BY <1>14, <3>1 DEF StreamsSound
    <3> HIDE DEF key, st, last
    <3> QED
      BY <1>7, <3>1, <3>2
  <2> QED
    BY <2>1, <2>2
<1>15. ASSUME program = "live", NEW x \in DOMAIN all
       PROVE  last2[<<all[x].media, all[x].track>>] = x
  <2>1. CASE x = y
    BY <1>10, <1>13, <2>1
  <2>2. CASE x # y
    <3>1. x \in DOMAIN st
      BY <1>6, <2>2
    <3> DEFINE own == <<st[x].media, st[x].track>>
    <3>2. last[own] = x
      BY <1>15, <3>1 DEF StreamsSound
    <3>3. own \in Keys
      <4>1. st[x].media \in Media /\ st[x].track \in 1 .. NumTracks
        BY <1>4, <3>1, TrackNumbers DEF StreamRecord
      <4> QED
        BY <4>1 DEF Keys
    <3>4. x # NULL
      BY <1>3, <1>4, <3>1
    <3>5. last[key] = y \/ last[key] = NULL
      BY <1>6, <1>15
    <3>6. own # key
      BY <2>2, <3>2, <3>4, <3>5
    <3>7. own = <<all[x].media, all[x].track>>
      BY <1>7, <3>1
    <3> HIDE DEF own, key
    <3> QED
      BY <1>13, <3>2, <3>3, <3>6, <3>7
  <2> QED
    BY <2>1, <2>2
<1>16. DOMAIN all \subseteq Streams
  BY <1>4, <1>6
<1>17. StreamsSound(all, last2, T2, M2)
  BY <1>11, <1>12, <1>13, <1>14, <1>15, <1>16 DEF StreamsSound, Referring
<1>18. program = "live" /\ last[key] # NULL => y \in DOMAIN st
  BY <1>6
<1>19. \A x \in DOMAIN st : all[x].targets = st[x].targets /\ all[x].media = st[x].media
  BY <1>7
<1> QED
  BY <1>6, <1>10, <1>17, <1>18, <1>19 DEF IsSetUp, last2, y, all, r, LastSetUp

-----------------------------------------------------------------------------
(***************************************************************************)
(* Sessions and descriptions, as they count for media.                     *)
(***************************************************************************)

\* There are finitely many descriptions.
LEMMA DescriptionsFinite ==
  ASSUME NEW q \in Seq(Descriptions), NEW m
  PROVE  /\ IsFiniteSet(DescriptionsOf(q, m)) /\ Len(q) \in Nat /\ DOMAIN q = 1 .. Len(q)
         /\ Cardinality(DescriptionsOf(q, m)) \in Nat
<1>1. Len(q) \in Nat /\ DOMAIN q = 1 .. Len(q)
  OBVIOUS
<1>2. IsFiniteSet(1 .. Len(q)) /\ DescriptionsOf(q, m) \subseteq 1 .. Len(q)
  <2>1. DescriptionsOf(q, m) \subseteq 1 .. Len(q)
    BY <1>1 DEF DescriptionsOf
  <2> DEFINE n == Len(q)
  <2>2. n \in Nat
    BY <1>1
  <2> HIDE DEF n
  <2>3. IsFiniteSet(1 .. n)
    BY <2>2, FS_Interval
  <2> QED
    BY <2>1, <2>3 DEF n
<1>3. IsFiniteSet(DescriptionsOf(q, m))
  BY <1>2, FS_Subset
<1> QED
  BY <1>1, <1>3, FS_CardinalityType

\* What is referred to is counted.
LEMMA UsesCount ==
  ASSUME NEW all, IsFiniteSet(DOMAIN all), NEW q \in Seq(Descriptions)
  PROVE  /\ Uses(all, q) \in [Media -> Nat]
         /\ \A s \in DOMAIN all : all[s].media \in Media => Uses(all, q)[all[s].media] # 0
         /\ \A i \in DOMAIN q : q[i].media \in Media => Uses(all, q)[q[i].media] # 0
         /\ \A m \in Media : /\ IsFiniteSet(SessionsOf(all, m))
                             /\ Cardinality(SessionsOf(all, m)) \in Nat
                             /\ Cardinality(DescriptionsOf(q, m)) \in Nat
                             /\ Uses(all, q)[m] = Cardinality(SessionsOf(all, m))
                                    + Cardinality(DescriptionsOf(q, m))
<1>1. ASSUME NEW m \in Media
      PROVE  /\ IsFiniteSet(SessionsOf(all, m)) /\ Cardinality(SessionsOf(all, m)) \in Nat
             /\ IsFiniteSet(DescriptionsOf(q, m)) /\ Cardinality(DescriptionsOf(q, m)) \in Nat
             /\ Uses(all, q)[m] = Cardinality(SessionsOf(all, m))
                    + Cardinality(DescriptionsOf(q, m))
             /\ SessionsOf(all, m) # {} => Cardinality(SessionsOf(all, m)) # 0
             /\ DescriptionsOf(q, m) # {} => Cardinality(DescriptionsOf(q, m)) # 0
  <2>1. SessionsOf(all, m) \subseteq DOMAIN all
    BY DEF SessionsOf
  <2>2. IsFiniteSet(SessionsOf(all, m))
    BY <2>1, FS_Subset
  <2>3. IsFiniteSet(DescriptionsOf(q, m)) /\ Cardinality(DescriptionsOf(q, m)) \in Nat
    BY DescriptionsFinite
  <2>4. Uses(all, q)[m] = Cardinality(SessionsOf(all, m)) + Cardinality(DescriptionsOf(q, m))
    BY DEF Uses
  <2> QED
    BY <2>2, <2>3, <2>4, FS_EmptySet, FS_CardinalityType
<1>2. Uses(all, q) \in [Media -> Nat]
  BY <1>1 DEF Uses
<1>3. ASSUME NEW s \in DOMAIN all, all[s].media \in Media
      PROVE  Uses(all, q)[all[s].media] # 0
  <2>1. s \in SessionsOf(all, all[s].media)
    BY DEF SessionsOf
  <2> QED
    BY <1>1, <1>3, <2>1
<1>4. ASSUME NEW i \in DOMAIN q, q[i].media \in Media
      PROVE  Uses(all, q)[q[i].media] # 0
  <2>1. i \in DescriptionsOf(q, q[i].media)
    BY DEF DescriptionsOf
  <2> QED
    BY <1>1, <1>4, <2>1
<1> QED
  BY <1>1, <1>2, <1>3, <1>4

\* A set that got one element more, if "grows", is counted.
LEMMA CountedWith ==
  ASSUME NEW A, IsFiniteSet(A), NEW x, x \notin A, NEW grows
  PROVE  Cardinality(IF grows THEN A \cup {x} ELSE A)
             = Cardinality(A) + (IF grows THEN 1 ELSE 0)
<1>1. Cardinality(A \cup {x}) = Cardinality(A) + 1 /\ Cardinality(A) \in Nat
  BY FS_AddElement, FS_CardinalityType
<1> QED
  BY <1>1

\* A function that is more by one in one place.
LEMMA MoreByOne ==
  ASSUME NEW S, NEW f \in [S -> Nat], NEW g \in [S -> Nat], NEW m \in S,
         \A n \in S : g[n] = f[n] + (IF n = m THEN 1 ELSE 0)
  PROVE  g = [f EXCEPT ![m] = @ + 1]
<1>1. \A n \in S : g[n] = IF n = m THEN f[n] + 1 ELSE f[n]
  OBVIOUS
<1>2. [f EXCEPT ![m] = @ + 1] = [n \in S |-> IF n = m THEN f[n] + 1 ELSE f[n]]
  OBVIOUS
<1> QED
  BY <1>1, <1>2

\* One more session refers to media.
LEMMA OneSessionMore ==
  ASSUME NEW all, IsFiniteSet(DOMAIN all), NEW q \in Seq(Descriptions),
         NEW more, NEW s, NEW m \in Media, DOMAIN more = DOMAIN all \cup {s},
         more[s].media = m, s \in DOMAIN all => all[s].media = NULL,
         \A other \in DOMAIN all : other # s => more[other].media = all[other].media
  PROVE  Uses(more, q) = [Uses(all, q) EXCEPT ![m] = @ + 1]
<1>1. NULL \notin Media
  BY ServerAssumption DEF Media
<1>2. ASSUME NEW n \in Media
      PROVE  Uses(more, q)[n] = Uses(all, q)[n] + (IF n = m THEN 1 ELSE 0)
  <2> DEFINE A == SessionsOf(all, n)
             B == SessionsOf(more, n)
             D == Cardinality(DescriptionsOf(q, n))
  <2>1. s \notin A
    BY <1>1 DEF SessionsOf
  <2>2. B = IF n = m THEN A \cup {s} ELSE A
    BY <2>1 DEF SessionsOf
  <2>3. IsFiniteSet(A) /\ Cardinality(A) \in Nat /\ D \in Nat
    BY UsesCount
  <2>4. Uses(more, q)[n] = Cardinality(B) + D /\ Uses(all, q)[n] = Cardinality(A) + D
    BY DEF Uses
  <2> HIDE DEF A, B, D
  <2>5. Cardinality(B) = Cardinality(A) + (IF n = m THEN 1 ELSE 0)
    BY <2>1, <2>2, <2>3, CountedWith
  <2> QED
    BY <2>3, <2>4, <2>5
<1>3. Uses(all, q) \in [Media -> Nat]
  BY UsesCount
<1>4. Uses(more, q) \in [Media -> Nat]
  BY <1>2, <1>3 DEF Uses
<1> DEFINE f == Uses(all, q)
           g == Uses(more, q)
<1> HIDE DEF f, g
<1>5. g = [f EXCEPT ![m] = @ + 1]
  BY <1>2, <1>3, <1>4, MoreByOne DEF f, g
<1> QED
  BY <1>5 DEF f, g

\* A session that refers to no media does not count.
LEMMA NoSessionMore ==
  ASSUME NEW all, NEW q, NEW more, NEW s, DOMAIN more = DOMAIN all \cup {s},
         s \notin DOMAIN all => more[s].media = NULL,
         \A other \in DOMAIN all : more[other].media = all[other].media
  PROVE  Uses(more, q) = Uses(all, q)
<1>1. NULL \notin Media
  BY ServerAssumption DEF Media
<1>2. \A m \in Media : SessionsOf(more, m) = SessionsOf(all, m)
  BY <1>1 DEF SessionsOf
<1> QED
  BY <1>2 DEF Uses

\* One more description is made.
LEMMA OneDescriptionMore ==
  ASSUME NEW all, IsFiniteSet(DOMAIN all), NEW q \in Seq(Descriptions),
         NEW d \in Descriptions
  PROVE  /\ Append(q, d) \in Seq(Descriptions)
         /\ Uses(all, Append(q, d)) = [Uses(all, q) EXCEPT ![d.media] = @ + 1]
<1> DEFINE r == Append(q, d)
           k == Len(q) + 1
<1>1. /\ r \in Seq(Descriptions) /\ DOMAIN r = DOMAIN q \cup {k} /\ r[k] = d
      /\ k \notin DOMAIN q /\ \A i \in DOMAIN q : r[i] = q[i]
  OBVIOUS
<1> HIDE DEF r, k
<1>2. d.media \in Media
  BY DEF Descriptions
<1>3. ASSUME NEW n \in Media
      PROVE  Uses(all, r)[n] = Uses(all, q)[n] + (IF n = d.media THEN 1 ELSE 0)
  <2> DEFINE A == DescriptionsOf(q, n)
             B == DescriptionsOf(r, n)
             D == Cardinality(SessionsOf(all, n))
  <2>1. k \notin A
    BY <1>1 DEF DescriptionsOf
  <2>2. B = IF n = d.media THEN A \cup {k} ELSE A
    BY <1>1 DEF DescriptionsOf
  <2>3. IsFiniteSet(A) /\ Cardinality(A) \in Nat /\ D \in Nat
    BY UsesCount, DescriptionsFinite
  <2>4. Uses(all, r)[n] = D + Cardinality(B) /\ Uses(all, q)[n] = D + Cardinality(A)
    BY DEF Uses
  <2> HIDE DEF A, B, D
  <2>5. Cardinality(B) = Cardinality(A) + (IF n = d.media THEN 1 ELSE 0)
    BY <2>1, <2>2, <2>3, CountedWith
  <2> QED
    BY <2>3, <2>4, <2>5
<1>4. Uses(all, q) \in [Media -> Nat]
  BY UsesCount
<1>5. Uses(all, r) \in [Media -> Nat]
  BY <1>3, <1>4 DEF Uses
<1> DEFINE f == Uses(all, q)
           g == Uses(all, r)
<1> HIDE DEF f, g
<1>6. g = [f EXCEPT ![d.media] = @ + 1]
  BY <1>2, <1>3, <1>4, <1>5, MoreByOne DEF f, g
<1> QED
  BY <1>1, <1>6 DEF r, f, g

\* The innermost description is finished.
LEMMA OneDescriptionLess ==
  ASSUME NEW all, IsFiniteSet(DOMAIN all), NEW q \in Seq(Descriptions), q # <<>>
  PROVE  /\ Front(q) \in Seq(Descriptions) /\ Last(q) \in Descriptions
         /\ Uses(all, q) = [Uses(all, Front(q)) EXCEPT ![Last(q).media] = @ + 1]
<1> DEFINE t == Front(q)
           n == Len(q)
           d == Last(q)
<1>1. n \in Nat /\ n # 0 /\ q[n] \in Descriptions /\ \A i \in 1 .. n : q[i] \in Descriptions
  OBVIOUS
<1>2. t = SubSeq(q, 1, n - 1) /\ d = q[n]
  BY DEF Front, Last
<1>3. /\ t \in Seq(Descriptions) /\ Len(t) = n - 1
      /\ \A i \in 1 .. n - 1 : t[i] = q[i]
  <2> HIDE DEF t, n
  <2>1. n - 1 \in Int /\ \A i \in 1 .. n - 1 : q[i] \in Descriptions
    BY <1>1
  <2>2. /\ SubSeq(q, 1, n - 1) \in Seq(Descriptions)
        /\ Len(SubSeq(q, 1, n - 1)) = IF 1 <= n - 1 THEN n - 1 - 1 + 1 ELSE 0
        /\ \A i \in 1 .. n - 1 - 1 + 1 : SubSeq(q, 1, n - 1)[i] = q[1 + i - 1]
    BY <2>1, SubSeqProperties
  <2> QED
    BY <1>1, <1>2, <2>2
<1>4. q = Append(t, d)
  <2>1. /\ Append(t, d) \in Seq(Descriptions) /\ Len(Append(t, d)) = n
        /\ \A i \in 1 .. n : Append(t, d)[i] = IF i = n THEN d ELSE t[i]
    <3> HIDE DEF t, n, d
    <3> QED
      BY <1>1, <1>2, <1>3
  <2>2. \A i \in 1 .. n : Append(t, d)[i] = q[i]
    <3> DEFINE r == Append(t, d)
    <3> HIDE DEF t, n, d, r
    <3> QED
      BY <1>1, <1>2, <1>3, <2>1 DEF r
  <2> DEFINE r == Append(t, d)
  <2>3. r \in Seq(Descriptions) /\ Len(r) = Len(q) /\ \A i \in 1 .. Len(q) : r[i] = q[i]
    BY <2>1, <2>2
  <2> HIDE DEF r, t, d, n
  <2>4. r = q
    BY <2>3
  <2> QED
    BY <2>4 DEF r
<1>5. d \in Descriptions
  BY <1>1, <1>2
<1>6. Uses(all, Append(t, d)) = [Uses(all, t) EXCEPT ![d.media] = @ + 1]
  <2> HIDE DEF t, d
  <2> QED
    BY <1>3, <1>5, OneDescriptionMore
<1> QED
  BY <1>3, <1>4, <1>5, <1>6

-----------------------------------------------------------------------------
(***************************************************************************)
(* Tracks of sessions.                                                     *)
(***************************************************************************)

\* What a pair is, before and after a step.
LEMMA PairsOf ==
  /\ \A s, t : <<s, t>> \in AllPairs <=> /\ s \in DOMAIN sessions
                                         /\ t \in DOMAIN sessions[s].tracks
                                         /\ sessions[s].tracks[t].subsession
  /\ \A pair \in AllPairs : pair = <<pair[1], pair[2]>>
  /\ \A s, t : <<s, t>> \in AllPairs' <=> /\ s \in DOMAIN sessions'
                                          /\ t \in DOMAIN sessions'[s].tracks
                                          /\ sessions'[s].tracks[t].subsession
  /\ \A pair \in AllPairs' : pair = <<pair[1], pair[2]>>
<1>1. /\ \A s, t : <<s, t>> \in AllPairs <=> /\ s \in DOMAIN sessions
                                             /\ t \in DOMAIN sessions[s].tracks
                                             /\ sessions[s].tracks[t].subsession
      /\ \A pair \in AllPairs : pair = <<pair[1], pair[2]>>
  BY DEF AllPairs, TracksLeft, State
<1>2. /\ \A s, t : <<s, t>> \in AllPairs' <=> /\ s \in DOMAIN sessions'
                                              /\ t \in DOMAIN sessions'[s].tracks
                                              /\ sessions'[s].tracks[t].subsession
      /\ \A pair \in AllPairs' : pair = <<pair[1], pair[2]>>
  BY DEF AllPairs, TracksLeft, State
<1> QED
  BY <1>1, <1>2

\* What the pairs have, as the sessions are sound.
LEMMA PairsSound ==
  ASSUME SessionsSound
  PROVE  /\ \A pair \in AllPairs :
               /\ pair = <<pair[1], pair[2]>> /\ pair[1] \in DOMAIN sessions
               /\ pair[1] \in SessionIds /\ pair[2] \in Tracks
               /\ sessions[pair[1]].media \in Media
               /\ sessions[pair[1]].tracks \in [Tracks -> TrackState]
               /\ Token(pair) \in Streams \cup {NULL}
               /\ State(pair).tcpSocketNum \in Sockets \cup {UDP}
         /\ AllPairs \subseteq SessionIds \X Tracks
<1>1. ASSUME NEW pair \in AllPairs
      PROVE  /\ pair = <<pair[1], pair[2]>> /\ pair[1] \in DOMAIN sessions
             /\ pair[1] \in SessionIds /\ pair[2] \in Tracks
             /\ sessions[pair[1]].media \in Media
             /\ sessions[pair[1]].tracks \in [Tracks -> TrackState]
             /\ Token(pair) \in Streams \cup {NULL}
             /\ State(pair).tcpSocketNum \in Sockets \cup {UDP}
  <2> DEFINE s == pair[1]
             t == pair[2]
  <2>1. pair = <<s, t>> /\ s \in DOMAIN sessions /\ t \in DOMAIN sessions[s].tracks
    BY PairsOf
  <2>2. s \in SessionIds /\ sessions[s] \in [media : Media \cup {NULL},
                                  tracks : {<<>>} \cup [Tracks -> TrackState]]
    BY <2>1 DEF SessionsSound
  <2>3. sessions[s].tracks # <<>>
    BY <2>1
  <2>4. sessions[s].media # NULL
    BY <2>1, <2>3 DEF SessionsSound
  <2>5. sessions[s].tracks \in [Tracks -> TrackState] /\ sessions[s].media \in Media
    BY <2>1, <2>2, <2>4 DEF SessionsSound
  <2>6. t \in Tracks /\ sessions[s].tracks[t] \in TrackState
    BY <2>1, <2>5
  <2>7. /\ sessions[s].tracks[t].token \in Streams \cup {NULL}
        /\ sessions[s].tracks[t].tcpSocketNum \in Sockets \cup {UDP}
    BY <2>6 DEF TrackState
  <2> QED
    BY <2>1, <2>2, <2>5, <2>6, <2>7 DEF Token, State
<1> QED
  BY <1>1

\* The tracks of finitely many sessions are finitely many.
LEMMA PairsFinite ==
  ASSUME NEW ids, IsFiniteSet(ids), NEW pairs, pairs \subseteq ids \X Tracks
  PROVE  /\ IsFiniteSet(pairs) /\ IsFiniteSet(ids \X Tracks)
         /\ Cardinality(ids \X Tracks) = Cardinality(ids) * Cardinality(Tracks)
         /\ Cardinality(pairs) <= Cardinality(ids \X Tracks)
<1>1. IsFiniteSet(Tracks)
  <2>1. IsFiniteSet(1 .. NumTracks)
    BY TrackNumbers, FS_Interval
  <2> QED
    BY <2>1, TrackNumbers, FS_Subset
<1>2. /\ IsFiniteSet(ids \X Tracks)
      /\ Cardinality(ids \X Tracks) = Cardinality(ids) * Cardinality(Tracks)
  BY <1>1, FS_Product
<1> QED
  BY <1>2, FS_Subset

\* Steps that leave the sessions alone leave alone what they refer to.
LEMMA SessionsUnchanged ==
  ASSUME sessions' = sessions
  PROVE  /\ AllPairs' = AllPairs /\ TokenMap' = TokenMap /\ MediaMap' = MediaMap
         /\ SocketMap' = SocketMap
         /\ program' = program /\ SessionsSound => SessionsSound'
         /\ describing' = describing => UsesMap' = UsesMap
<1>1. AllPairs' = AllPairs
  BY DEF AllPairs, TracksLeft, State
<1>2. TokenMap' = TokenMap /\ MediaMap' = MediaMap /\ SocketMap' = SocketMap
  BY <1>1 DEF TokenMap, MediaMap, SocketMap, Token, State
<1>3. program' = program /\ SessionsSound => SessionsSound'
  BY DEF SessionsSound, TrackState, Tracks
<1>4. describing' = describing => UsesMap' = UsesMap
  BY DEF UsesMap
<1> QED
  BY <1>1, <1>2, <1>3, <1>4

\* The sessions that are deleted with these tracks.
Gone(pairs, ended) ==
    ended \cup {s \in {pair[1] : pair \in pairs} :
                   {t \in DOMAIN sessions[s].tracks :
                       State(<<s, t>>).subsession /\ <<s, t>> \notin pairs} = {}}

\* The references to media that are given up with these tracks.
Released(pairs, ended, described) ==
    [m \in DOMAIN media |->
        Cardinality({s \in Gone(pairs, ended) : sessions[s].media = m})
        + (IF m \in described THEN 1 ELSE 0)]

\* The tracks of a session when these are no longer part of it.
TracksWithout(s, pairs) ==
    [t \in DOMAIN sessions[s].tracks |->
        IF <<s, t>> \in pairs
        THEN [sessions[s].tracks[t] EXCEPT !.subsession = FALSE]
        ELSE sessions[s].tracks[t]]

\* Deleting tracks, said with these.
LEMMA TracksDeleted ==
  ASSUME NEW pairs, NEW ended, NEW described, DeleteTracks(pairs, ended, described)
  PROVE  /\ streams' = Deleted(pairs).streams
         /\ fLastStreamToken' = Deleted(pairs).last
         /\ destinations' = Deleted(pairs).destinations
         /\ callback' = CallbackLeft(pairs)
         /\ sessions' = [s \in DOMAIN sessions \ Gone(pairs, ended) |->
                            [sessions[s] EXCEPT !.tracks = TracksWithout(s, pairs)]]
         /\ GiveUpMedia(Released(pairs, ended, described))
         /\ stale' = {pair \in stale \ pairs : pair[1] \notin Gone(pairs, ended)}
<1>1. Deleted(pairs).callback = CallbackLeft(pairs)
  BY DEF Deleted
<1> QED
  BY <1>1 DEF DeleteTracks, Gone, Released, TracksWithout

\* The sessions and tracks that are left are as before.
LEMMA SessionsLeft ==
  ASSUME SessionsSound, program' = program, NEW pairs, pairs \subseteq AllPairs,
         NEW ended, ended \subseteq DOMAIN sessions,
         \A s \in ended : TracksLeft(s) \subseteq pairs,
         NEW described, DeleteTracks(pairs, ended, described)
  PROVE  /\ SessionsSound' /\ Gone(pairs, ended) \subseteq DOMAIN sessions
         /\ DOMAIN sessions' = DOMAIN sessions \ Gone(pairs, ended)
         /\ \A s \in DOMAIN sessions' : sessions'[s].media = sessions[s].media
         /\ AllPairs' = AllPairs \ pairs
         /\ \A pair \in AllPairs' : pair[1] \notin Gone(pairs, ended)
         /\ TokenMap' = Without(TokenMap, pairs)
         /\ MediaMap' = Without(MediaMap, pairs)
         /\ SocketMap' = Without(SocketMap, pairs)
<1> DEFINE gone == Gone(pairs, ended)
<1>1. /\ DOMAIN sessions' = DOMAIN sessions \ gone
      /\ \A s \in DOMAIN sessions' :
            sessions'[s] = [sessions[s] EXCEPT !.tracks = TracksWithout(s, pairs)]
  BY SMTT(30), TracksDeleted
<1>2. gone \subseteq DOMAIN sessions
  BY PairsSound DEF Gone
<1>3. ASSUME NEW s \in DOMAIN sessions'
      PROVE  /\ s \in DOMAIN sessions /\ s \notin gone
             /\ sessions'[s] \in [media : Media \cup {NULL},
                                  tracks : {<<>>} \cup [Tracks -> TrackState]]
             /\ sessions'[s].media = sessions[s].media
             /\ DOMAIN sessions'[s].tracks = DOMAIN sessions[s].tracks
             /\ sessions[s].tracks = <<>> => sessions'[s].tracks = <<>>
             /\ sessions[s].tracks \in [Tracks -> TrackState]
                    => sessions'[s].tracks \in [Tracks -> TrackState]
             /\ \A t \in DOMAIN sessions[s].tracks :
                   IF <<s, t>> \in pairs
                   THEN ~sessions'[s].tracks[t].subsession
                   ELSE sessions'[s].tracks[t] = sessions[s].tracks[t]
  <2> DEFINE tracks == sessions[s].tracks
             new == [t \in DOMAIN tracks |->
                        IF <<s, t>> \in pairs
                        THEN [tracks[t] EXCEPT !.subsession = FALSE] ELSE tracks[t]]
  <2>1. /\ s \in DOMAIN sessions /\ s \notin gone
        /\ sessions[s] \in [media : Media \cup {NULL},
                            tracks : {<<>>} \cup [Tracks -> TrackState]]
    BY <1>1 DEF SessionsSound
  <2>2. sessions'[s] = [sessions[s] EXCEPT !.tracks = new]
    BY <1>1 DEF TracksWithout
  <2>3. sessions'[s].media = sessions[s].media /\ sessions'[s].tracks = new
    <3> HIDE DEF new
    <3> QED
      BY <2>1, <2>2
  <2>4. tracks = <<>> => new = <<>>
    OBVIOUS
  <2>5. ASSUME tracks \in [Tracks -> TrackState]
        PROVE  /\ new \in [Tracks -> TrackState]
               /\ \A t \in Tracks : <<s, t>> \in pairs => ~new[t].subsession
    <3>1. ASSUME NEW t \in Tracks
          PROVE  /\ [tracks[t] EXCEPT !.subsession = FALSE] \in TrackState
                 /\ ~[tracks[t] EXCEPT !.subsession = FALSE].subsession
      <4>1. tracks[t] \in TrackState
        BY <2>5
      <4> HIDE DEF tracks
      <4> QED
        BY <4>1 DEF TrackState
    <3> HIDE DEF tracks
    <3> QED
      BY <2>5, <3>1
  <2>6. \A t \in DOMAIN tracks : IF <<s, t>> \in pairs
                                 THEN ~new[t].subsession ELSE new[t] = tracks[t]
    <3>1. CASE tracks = <<>>
      BY <3>1
    <3>2. CASE tracks \in [Tracks -> TrackState]
      BY <2>5, <3>2
    <3> QED
      BY <2>1, <3>1, <3>2
  <2>7. DOMAIN new = DOMAIN tracks
    OBVIOUS
  <2>8. sessions'[s] \in [media : Media \cup {NULL},
                          tracks : {<<>>} \cup [Tracks -> TrackState]]
    <3>1. new \in {<<>>} \cup [Tracks -> TrackState]
      BY <2>1, <2>4, <2>5
    <3> HIDE DEF new
    <3> QED
      BY <2>1, <2>2, <3>1
  <2> HIDE DEF new, tracks
  <2> QED
    BY <2>1, <2>3, <2>4, <2>5, <2>6, <2>7, <2>8 DEF tracks
<1>4. SessionsSound'
  <2>1. DOMAIN sessions' \subseteq SessionIds /\ IsFiniteSet(DOMAIN sessions')
    BY <1>1, FS_Subset DEF SessionsSound
  <2>2. \A s \in DOMAIN sessions' :
           /\ sessions'[s].media = NULL => sessions'[s].tracks = <<>>
           /\ sessions'[s].media # NULL => sessions'[s].tracks \in [Tracks -> TrackState]
    BY <1>3 DEF SessionsSound
  <2> QED
    BY <1>3, <2>1, <2>2 DEF SessionsSound, TrackState, Tracks
<1>5. ASSUME NEW s \in gone, NEW t
      PROVE  <<s, t>> \in AllPairs => <<s, t>> \in pairs
  <2>1. CASE s \in ended
    BY <2>1, PairsOf DEF TracksLeft, State
  <2>2. CASE s \notin ended
    BY <2>2, PairsOf DEF Gone, State
  <2> QED
    BY <2>1, <2>2
<1>6. ASSUME NEW pair
      PROVE  pair \in AllPairs' <=> pair \in AllPairs /\ pair \notin pairs
  <2>1. ASSUME NEW s, NEW t
        PROVE  <<s, t>> \in AllPairs' <=> <<s, t>> \in AllPairs /\ <<s, t>> \notin pairs
    <3>1. CASE s \in DOMAIN sessions'
      BY <1>3, <3>1, PairsOf
    <3>2. CASE s \notin DOMAIN sessions'
      BY <1>1, <1>5, <3>2, PairsOf
    <3> QED
      BY <3>1, <3>2
  <2> QED
    BY <2>1, PairsOf
<1>7. AllPairs' = AllPairs \ pairs
  BY <1>6
<1>8. ASSUME NEW pair \in AllPairs'
      PROVE  /\ pair \in AllPairs /\ pair[1] \in DOMAIN sessions'
             /\ sessions'[pair[1]].media = sessions[pair[1]].media
             /\ sessions'[pair[1]].tracks[pair[2]] = sessions[pair[1]].tracks[pair[2]]
  <2>1. /\ pair = <<pair[1], pair[2]>> /\ pair[1] \in DOMAIN sessions'
        /\ pair \in AllPairs /\ pair \notin pairs
    BY <1>6, PairsOf
  <2>2. pair[2] \in DOMAIN sessions[pair[1]].tracks
    BY <2>1, PairsOf
  <2> QED
    BY <1>3, <2>1, <2>2
<1>9. /\ TokenMap' = Without(TokenMap, pairs) /\ MediaMap' = Without(MediaMap, pairs)
      /\ SocketMap' = Without(SocketMap, pairs)
  BY <1>7, <1>8, Maps DEF TokenMap, MediaMap, SocketMap, Without, Token, State
<1> QED
  BY <1>1, <1>2, <1>3, <1>4, <1>7, <1>8, <1>9

-----------------------------------------------------------------------------
(***************************************************************************)
(* Deleting tracks.                                                        *)
(***************************************************************************)

\* The media that streams are of are referred to, and exist.
LEMMA StreamsHaveMedia ==
  ASSUME NEW all, NEW last, NEW tokens, NEW of, StreamsSound(all, last, tokens, of),
         NEW m, NEW sms, NEW uses, MediaSound(m, sms, uses),
         \A pair \in DOMAIN tokens : of[pair] \in Media /\ uses[of[pair]] # 0
  PROVE  \A x \in DOMAIN all : /\ all[x].media \in DOMAIN m
                               /\ uses[all[x].media] # 0
                               /\ program = "live" => all[x].media = sms
<1> SUFFICES ASSUME NEW x \in DOMAIN all
             PROVE  /\ all[x].media \in DOMAIN m /\ uses[all[x].media] # 0
                    /\ program = "live" => all[x].media = sms
  OBVIOUS
<1>1. PICK pair \in DOMAIN tokens : tokens[pair] = x
  BY DEF StreamsSound
<1>2. NULL \notin Streams /\ x \in Streams
  BY ServerAssumption DEF Streams, StreamsSound
<1>3. all[x].media = of[pair]
  BY <1>1, <1>2 DEF StreamsSound
<1> QED
  BY <1>3 DEF MediaSound

\* There is only one live stream.
LEMMA OneLiveStream ==
  ASSUME NEW all, NEW last, NEW tokens, NEW of, StreamsSound(all, last, tokens, of),
         program = "live", NEW x \in DOMAIN all, NEW z \in DOMAIN all,
         all[x].media = all[z].media
  PROVE  x = z
<1>1. all[x] \in StreamRecord /\ all[z] \in StreamRecord
  BY DEF StreamsSound
<1>2. all[x].track = 1 /\ all[z].track = 1
  BY <1>1 DEF StreamRecord, Tracks
<1>3. last[<<all[x].media, 1>>] = x /\ last[<<all[z].media, 1>>] = z
  BY <1>2 DEF StreamsSound
<1> QED
  BY <1>3

\* The media of the tracks of all sessions are referred to.
LEMMA PairsUseMedia ==
  ASSUME SessionsSound, describing \in Seq(Descriptions)
  PROVE  \A pair \in DOMAIN TokenMap : MediaMap[pair] \in Media /\ UsesMap[MediaMap[pair]] # 0
<1> SUFFICES ASSUME NEW pair \in AllPairs
             PROVE  MediaMap[pair] \in Media /\ UsesMap[MediaMap[pair]] # 0
  BY Maps
<1>1. /\ MediaMap[pair] = sessions[pair[1]].media /\ pair[1] \in DOMAIN sessions
      /\ sessions[pair[1]].media \in Media
  BY Maps, PairsSound
<1>2. IsFiniteSet(DOMAIN sessions)
  BY DEF SessionsSound
<1> QED
  BY <1>1, <1>2, UsesCount DEF UsesMap

\* Media are given up by the sessions that go, and by a description.
LEMMA MediaLeft ==
  ASSUME SessionsSound, describing \in Seq(Descriptions), program' = program,
         MediaSound(media, fServerMediaSessions, UsesMap),
         NEW pairs, pairs \subseteq AllPairs,
         NEW ended, ended \subseteq DOMAIN sessions,
         \A s \in ended : TracksLeft(s) \subseteq pairs,
         NEW described, DeleteTracks(pairs, ended, described),
         \/ described = {} /\ describing' = describing
         \/ /\ describing # <<>> /\ described = {Last(describing).media}
            /\ describing' = Front(describing)
  PROVE  /\ MediaSound(media', fServerMediaSessions', UsesMap')
         /\ describing' \in Seq(Descriptions)
         /\ \A m \in DOMAIN media' :
               m \in DOMAIN media /\ media'[m].described = media[m].described
<1> DEFINE gone == Gone(pairs, ended)
           G(m) == {s \in gone : sessions[s].media = m}
           released == Released(pairs, ended, described)
           middle == Uses(sessions', describing)
           one(m) == IF m \in described THEN 1 ELSE 0
<1>1. /\ gone \subseteq DOMAIN sessions /\ DOMAIN sessions' = DOMAIN sessions \ gone
      /\ \A s \in DOMAIN sessions' : sessions'[s].media = sessions[s].media
  BY SessionsLeft
<1>2. IsFiniteSet(DOMAIN sessions) /\ IsFiniteSet(DOMAIN sessions')
  BY <1>1, FS_Subset DEF SessionsSound
<1>3. ASSUME NEW m \in Media
      PROVE  /\ Cardinality(G(m)) \in Nat
             /\ UsesMap[m] = middle[m] + Cardinality(G(m))
  <2> DEFINE A == SessionsOf(sessions, m)
             B == SessionsOf(sessions', m)
             D == Cardinality(DescriptionsOf(describing, m))
             g == G(m)
  <2>1. g \subseteq A /\ B = A \ g
    BY <1>1 DEF SessionsOf
  <2>2. /\ IsFiniteSet(A) /\ Cardinality(A) \in Nat /\ D \in Nat
        /\ UsesMap[m] = Cardinality(A) + D
    BY <1>2, UsesCount DEF UsesMap
  <2>3. middle[m] = Cardinality(B) + D
    BY DEF Uses
  <2> HIDE DEF A, B, D, g, middle, G, gone
  <2>4. /\ Cardinality(g) \in Nat /\ Cardinality(g) <= Cardinality(A)
        /\ Cardinality(A \ g) = Cardinality(A) - Cardinality(g)
    BY <2>1, <2>2, CountedWithout
  <2>5. Cardinality(g) \in Nat /\ UsesMap[m] = middle[m] + Cardinality(g)
    BY <2>1, <2>2, <2>3, <2>4
  <2> QED
    BY <2>5 DEF g
<1>4. /\ describing' \in Seq(Descriptions)
      /\ \A m \in Media : middle[m] = UsesMap'[m] + one(m)
  <2>1. CASE described = {} /\ describing' = describing
    <3>1. middle = UsesMap' /\ middle \in [Media -> Nat]
      BY <1>2, <2>1, UsesCount DEF UsesMap
    <3> HIDE DEF middle
    <3> QED
      BY <2>1, <3>1
  <2>2. CASE /\ describing # <<>> /\ described = {Last(describing).media}
             /\ describing' = Front(describing)
    <3> DEFINE d == Last(describing)
    <3>1. /\ Front(describing) \in Seq(Descriptions) /\ d \in Descriptions
          /\ middle = [Uses(sessions', Front(describing)) EXCEPT ![d.media] = @ + 1]
      BY <1>2, <2>2, OneDescriptionLess
    <3>2. middle = [UsesMap' EXCEPT ![d.media] = @ + 1] /\ UsesMap' \in [Media -> Nat]
      BY <1>2, <2>2, <3>1, UsesCount DEF UsesMap
    <3>3. described = {d.media}
      BY <2>2
    <3>4. describing' \in Seq(Descriptions)
      BY <2>2, <3>1
    <3>5. d.media \in Media
      BY <3>1 DEF Descriptions
    <3> DEFINE u == UsesMap'
    <3> HIDE DEF middle, d, u
    <3>6. u \in [Media -> Nat] /\ middle = [u EXCEPT ![d.media] = u[d.media] + 1]
      BY <3>2 DEF u
    <3>7. ASSUME NEW m \in Media
          PROVE  middle[m] = u[m] + one(m)
      BY <3>3, <3>5, <3>6
    <3> QED
      BY <3>4, <3>7 DEF u
  <2> QED
    BY <2>1, <2>2
<1>5. /\ UsesMap' \in [Media -> Nat] /\ UsesMap \in [Media -> Nat]
      /\ DOMAIN media \subseteq Media
      /\ \A m \in Media : UsesMap[m] # 0 => m \in DOMAIN media
  BY <1>2, <1>4, UsesCount DEF UsesMap, MediaSound
<1> DEFINE n(m) == Cardinality(G(m)) + one(m)
<1>6. \A m \in Media : /\ n(m) \in Nat /\ n(m) <= UsesMap[m]
                       /\ UsesMap'[m] = UsesMap[m] - n(m)
  <2> SUFFICES ASSUME NEW m \in Media
               PROVE  /\ n(m) \in Nat /\ n(m) <= UsesMap[m]
                      /\ UsesMap'[m] = UsesMap[m] - n(m)
    OBVIOUS
  <2> DEFINE k == Cardinality(G(m))
             mid == middle[m]
  <2>1. k \in Nat /\ UsesMap[m] = mid + k
    BY <1>3
  <2>2. mid = UsesMap'[m] + one(m) /\ UsesMap'[m] \in Nat
    BY <1>4, <1>5
  <2> HIDE DEF k, mid
  <2>3. /\ k + one(m) \in Nat /\ k + one(m) <= UsesMap[m]
        /\ UsesMap'[m] = UsesMap[m] - (k + one(m))
    BY <2>1, <2>2
  <2> QED
    BY <2>3 DEF k
<1>7. released = [m \in DOMAIN media |-> n(m)]
  BY DEF Released
<1>8. GiveUpMedia(released)
  BY TracksDeleted
<1> HIDE DEF released, n, middle, gone
<1>9. /\ released \in [DOMAIN media -> Nat]
      /\ \A m \in DOMAIN media : /\ released[m] <= UsesMap[m]
                                 /\ UsesMap'[m] = UsesMap[m] - released[m]
  BY <1>5, <1>6, <1>7
<1>10. \A m \in Media \ DOMAIN media : UsesMap'[m] = UsesMap[m]
  <2> SUFFICES ASSUME NEW m \in Media \ DOMAIN media
               PROVE  UsesMap'[m] = UsesMap[m]
    OBVIOUS
  <2>1. UsesMap[m] = 0
    BY <1>5
  <2>2. n(m) \in Nat /\ n(m) <= 0 /\ UsesMap'[m] = 0 - n(m)
    BY <1>6, <2>1
  <2> QED
    BY <2>1, <2>2
<1> DEFINE later == UsesMap'
<1>11. later \in [Media -> Nat]
  BY <1>5
<1> HIDE DEF later
<1>12. /\ MediaSound(media', fServerMediaSessions', later)
       /\ \A m \in DOMAIN media' :
             m \in DOMAIN media /\ media'[m].described = media[m].described
  BY <1>8, <1>9, <1>10, <1>11, GivenUpSound DEF later
<1> QED
  BY <1>4, <1>12 DEF later

\* A step to a state of which the parts of the invariant hold.
LEMMA Sound ==
  ASSUME program' = program, Others', SessionsSound', NotedAreConnected', LiveStreamIsFed',
         MediaSound(media', fServerMediaSessions', UsesMap'),
         StreamsSound(streams', fLastStreamToken', TokenMap', MediaMap'),
         DestinationsSound(streams', destinations', TokenMap', SocketMap'),
         NotesSound(destinations', fTCPStreamingDatabase', TokenMap', SocketMap', stale')
  PROVE  IInv'
<1>1. MediaSound(media, fServerMediaSessions, UsesMap)'
  BY DEF MediaSound
<1>2. StreamsSound(streams, fLastStreamToken, TokenMap, MediaMap)'
  BY DEF StreamsSound, StreamRecord, Tracks
<1>3. DestinationsSound(streams, destinations, TokenMap, SocketMap)'
  BY DEF DestinationsSound, Tracks
<1>4. NotesSound(destinations, fTCPStreamingDatabase, TokenMap, SocketMap, stale)'
  BY DEF NotesSound, Tracks
<1> QED
  BY <1>1, <1>2, <1>3, <1>4 DEF IInv

\* The live stream is fed still: it is the only one, and is left only if no
\* source is closed.
LEMMA FedStill ==
  ASSUME IInv, NEW pairs, pairs \subseteq AllPairs, program = "live",
         NEW x \in DOMAIN streams, x \notin ReferencedByThese(pairs)
  PROVE  CallbackLeft(pairs) = x \/ media[streams[x].media].described = "late"
<1>1. /\ StreamsSound(streams, fLastStreamToken, TokenMap, MediaMap)
      /\ MediaSound(media, fServerMediaSessions, UsesMap)
      /\ SessionsSound /\ describing \in Seq(Descriptions) /\ LiveStreamIsFed
  BY DEF IInv, Others
<1>2. \A z \in DOMAIN streams : streams[z].media = fServerMediaSessions
  BY <1>1, PairsUseMedia, StreamsHaveMedia
<1>3. \A z \in DOMAIN streams : z = x
  BY <1>1, <1>2, OneLiveStream
<1>4. ReferencedByThese(pairs) = {}
  BY <1>3 DEF ReferencedByThese
<1>5. CallbackLeft(pairs) = callback
  BY <1>4 DEF CallbackLeft
<1> QED
  BY <1>1, <1>5 DEF LiveStreamIsFed

\* Deleting tracks leaves sessions, media, streams and destinations sound.
LEMMA TracksGone ==
  ASSUME IInv, program' = program,
         NEW pairs, pairs \subseteq AllPairs,
         NEW ended, ended \subseteq DOMAIN sessions,
         \A s \in ended : TracksLeft(s) \subseteq pairs,
         NEW described, DeleteTracks(pairs, ended, described),
         \/ described = {} /\ describing' = describing
         \/ /\ describing # <<>> /\ described = {Last(describing).media}
            /\ describing' = Front(describing)
  PROVE  /\ SessionsSound' /\ LiveStreamIsFed'
         /\ MediaSound(media', fServerMediaSessions', UsesMap')
         /\ StreamsSound(streams', fLastStreamToken', TokenMap', MediaMap')
         /\ DestinationsSound(streams', destinations', TokenMap', SocketMap')
         /\ describing' \in Seq(Descriptions) /\ callback' \in Streams \cup {NULL}
         /\ stale' \subseteq SessionIds \X Tracks
         /\ TokenMap' = Without(TokenMap, pairs) /\ SocketMap' = Without(SocketMap, pairs)
         /\ \A pair \in AllPairs' : pair \in stale => pair \in stale'
         /\ destinations' = {d \in destinations : <<d.session, d.track>> \notin pairs}
<1>1. /\ StreamsSound(streams, fLastStreamToken, TokenMap, MediaMap)
      /\ DestinationsSound(streams, destinations, TokenMap, SocketMap)
      /\ MediaSound(media, fServerMediaSessions, UsesMap)
      /\ SessionsSound /\ describing \in Seq(Descriptions)
      /\ callback \in Streams \cup {NULL} /\ stale \subseteq SessionIds \X Tracks
  BY DEF IInv, Others
<1>2. /\ SessionsSound' /\ AllPairs' = AllPairs \ pairs
      /\ \A pair \in AllPairs' : pair[1] \notin Gone(pairs, ended)
      /\ TokenMap' = Without(TokenMap, pairs)
      /\ MediaMap' = Without(MediaMap, pairs)
      /\ SocketMap' = Without(SocketMap, pairs)
      /\ DOMAIN sessions' = DOMAIN sessions \ Gone(pairs, ended)
      /\ \A s \in DOMAIN sessions' : sessions'[s].media = sessions[s].media
  BY <1>1, SessionsLeft
<1>3. /\ MediaSound(media', fServerMediaSessions', UsesMap')
      /\ describing' \in Seq(Descriptions)
      /\ \A m \in DOMAIN media' :
            m \in DOMAIN media /\ media'[m].described = media[m].described
  BY <1>1, MediaLeft
<1>4. /\ streams' = Deleted(pairs).streams /\ fLastStreamToken' = Deleted(pairs).last
      /\ destinations' = Deleted(pairs).destinations /\ callback' = CallbackLeft(pairs)
      /\ stale' = {pair \in stale \ pairs : pair[1] \notin Gone(pairs, ended)}
  BY TracksDeleted
<1>5. /\ StreamsSound(streams', fLastStreamToken', TokenMap', MediaMap')
      /\ DestinationsSound(streams', destinations', TokenMap', SocketMap')
  BY <1>1, <1>2, <1>4, DeletedSound
<1>6. destinations' = {d \in destinations : <<d.session, d.track>> \notin pairs}
  BY <1>4 DEF Deleted
<1>7. \A pair \in AllPairs' : pair \in stale => pair \in stale'
  BY <1>2, <1>4
<1>8. callback' \in Streams \cup {NULL} /\ stale' \subseteq SessionIds \X Tracks
  BY <1>1, <1>4 DEF CallbackLeft
<1>9. LiveStreamIsFed'
  <2>1. ASSUME program = "live", NEW x \in DOMAIN streams'
        PROVE  callback' = x \/ media'[streams'[x].media].described = "late"
    <3>1. x \in DOMAIN streams /\ x \notin ReferencedByThese(pairs)
      BY <1>1, <1>4, DeletedSound
    <3>2. streams'[x].media = streams[x].media
      BY <1>1, <1>4, DeletedSound
    <3>3. callback' = x \/ media[streams[x].media].described = "late"
      BY <1>4, <2>1, <3>1, FedStill
    <3>4. \A pair \in DOMAIN TokenMap' :
             MediaMap'[pair] \in Media /\ UsesMap'[MediaMap'[pair]] # 0
      <4> SUFFICES ASSUME NEW pair \in DOMAIN TokenMap'
                   PROVE  MediaMap'[pair] \in Media /\ UsesMap'[MediaMap'[pair]] # 0
        OBVIOUS
      <4>1. /\ pair \in AllPairs \ pairs /\ MediaMap'[pair] = sessions[pair[1]].media
            /\ pair[1] \in DOMAIN sessions /\ sessions[pair[1]].media \in Media
        BY <1>1, <1>2, Maps, PairsSound DEF Without
      <4>2. pair[1] \in DOMAIN sessions' /\ sessions'[pair[1]].media = sessions[pair[1]].media
        BY <1>2, <4>1
      <4>3. IsFiniteSet(DOMAIN sessions')
        BY <1>2 DEF SessionsSound
      <4> QED
        BY <1>3, <4>1, <4>2, <4>3, UsesCount DEF UsesMap
    <3>5. streams'[x].media \in DOMAIN media'
      BY <1>3, <1>5, <3>4, StreamsHaveMedia
    <3> QED
      BY <1>3, <3>2, <3>3, <3>5
  <2> QED
    BY <2>1 DEF LiveStreamIsFed
<1> QED
  BY <1>2, <1>3, <1>5, <1>6, <1>7, <1>8, <1>9

\* What is noted is sound still if these tracks and their notes go.
LEMMA NotesLeft ==
  ASSUME NotesSound(destinations, fTCPStreamingDatabase, TokenMap, SocketMap, stale),
         NEW pairs, NEW dests, NEW notes, NEW old, NEW T, NEW K,
         T = Without(TokenMap, pairs), K = Without(SocketMap, pairs),
         dests = {d \in destinations : <<d.session, d.track>> \notin pairs},
         \A pair \in AllPairs \ pairs : pair \in stale => pair \in old,
         \A d \in dests : <<d.session, d.track>> \in AllPairs,
         notes \subseteq fTCPStreamingDatabase,
         \A record \in notes : <<record.session, record.track>> \notin pairs,
         \A record \in fTCPStreamingDatabase :
            <<record.session, record.track>> \notin pairs => record \in notes
  PROVE  NotesSound(dests, notes, T, K, old)
<1>1. /\ DOMAIN T = AllPairs \ pairs
      /\ \A pair \in DOMAIN T : T[pair] = TokenMap[pair] /\ K[pair] = SocketMap[pair]
  BY Maps DEF Without
<1>2. ASSUME NEW d \in dests
      PROVE  \/ d.socket = UDP \/ <<d.session, d.track>> \in old
             \/ [socket |-> d.socket, session |-> d.session,
                 track |-> d.track] \in notes
  <2> DEFINE record == [socket |-> d.socket, session |-> d.session, track |-> d.track]
             pair == <<d.session, d.track>>
  <2>1. d \in destinations /\ pair \in AllPairs \ pairs
    OBVIOUS
  <2>2. d.socket = UDP \/ pair \in stale \/ record \in fTCPStreamingDatabase
    BY <2>1 DEF NotesSound
  <2>3. record \in fTCPStreamingDatabase => record \in notes
    BY <2>1
  <2> QED
    BY <2>1, <2>2, <2>3
<1>3. ASSUME NEW record \in notes
      PROVE  /\ <<record.session, record.track>> \in DOMAIN T
             /\ K[<<record.session, record.track>>] = record.socket
  <2>1. <<record.session, record.track>> \in AllPairs \ pairs
    BY Maps DEF NotesSound
  <2> QED
    BY <1>1, <2>1 DEF NotesSound
<1>4. \A pair \in DOMAIN T : T[pair] = NULL => K[pair] = UDP
  BY <1>1, Maps DEF NotesSound
<1>5. notes \subseteq [socket : Sockets, session : SessionIds, track : Tracks]
  BY DEF NotesSound
<1> QED
  BY <1>2, <1>3, <1>4, <1>5 DEF NotesSound

\* Forgetting the notes of these tracks leaves none of them.
LEMMA UnnotedAre ==
  ASSUME NotesSound(destinations, fTCPStreamingDatabase, TokenMap, SocketMap, stale),
         NEW pairs, pairs \subseteq AllPairs
  PROVE  /\ Unnoted(pairs) \subseteq fTCPStreamingDatabase
         /\ \A record \in fTCPStreamingDatabase :
               record \in Unnoted(pairs)
                   <=> <<record.session, record.track>> \notin pairs
<1>1. ASSUME NEW record \in fTCPStreamingDatabase
      PROVE  record \in Unnoted(pairs) <=> <<record.session, record.track>> \notin pairs
  <2> DEFINE pair == <<record.session, record.track>>
  <2>1. pair \in AllPairs /\ SocketMap[pair] = record.socket
    BY Maps DEF NotesSound
  <2>2. State(pair).tcpSocketNum = record.socket
    BY <2>1, Maps
  <2> QED
    BY <2>2 DEF Unnoted
<1> QED
  BY <1>1 DEF Unnoted

\* Tracks of sessions that go with their notes.
LEMMA TracksAndNotesGone ==
  ASSUME IInv, UNCHANGED <<program, connections, describing>>,
         NEW pairs, pairs \subseteq AllPairs,
         NEW ended, ended \subseteq DOMAIN sessions,
         \A s \in ended : TracksLeft(s) \subseteq pairs,
         DeleteTracks(pairs, ended, {}),
         fTCPStreamingDatabase' = Unnoted(pairs)
  PROVE  IInv'
<1>1. /\ SessionsSound' /\ LiveStreamIsFed'
      /\ MediaSound(media', fServerMediaSessions', UsesMap')
      /\ StreamsSound(streams', fLastStreamToken', TokenMap', MediaMap')
      /\ DestinationsSound(streams', destinations', TokenMap', SocketMap')
      /\ describing' \in Seq(Descriptions) /\ callback' \in Streams \cup {NULL}
      /\ stale' \subseteq SessionIds \X Tracks
      /\ TokenMap' = Without(TokenMap, pairs) /\ SocketMap' = Without(SocketMap, pairs)
      /\ \A pair \in AllPairs' : pair \in stale => pair \in stale'
      /\ destinations' = {d \in destinations : <<d.session, d.track>> \notin pairs}
  BY TracksGone
<1>2. /\ NotesSound(destinations, fTCPStreamingDatabase, TokenMap, SocketMap, stale)
      /\ DestinationsSound(streams, destinations, TokenMap, SocketMap) /\ SessionsSound
      /\ NotedAreConnected
  BY DEF IInv
<1>3. AllPairs' = AllPairs \ pairs
  BY <1>2, SessionsLeft
<1>4. NotesSound(destinations', fTCPStreamingDatabase', TokenMap', SocketMap', stale')
  <2>1. \A d \in destinations' : <<d.session, d.track>> \in AllPairs
    BY <1>1, <1>2, Maps DEF DestinationsSound
  <2> QED
    BY <1>1, <1>2, <1>3, <2>1, UnnotedAre, NotesLeft
<1>5. NotedAreConnected'
  BY <1>2, UnnotedAre DEF NotedAreConnected
<1>6. Others'
  BY <1>1 DEF IInv, Others, Tracks
<1> QED
  BY <1>1, <1>4, <1>5, <1>6, Sound

\* TEARDOWN keeps the invariant.
LEMMA TeardownKeepsIInv ==
  ASSUME IInv, NEW c \in Connections, NEW s \in SessionIds, Teardown(c, s)
  PROVE  IInv'
<1>1. PICK tracks \in Chosen(s) : /\ fTCPStreamingDatabase' = Unnoted(Pairs(s, tracks))
                                  /\ DeleteTracks(Pairs(s, tracks), {}, {})
  BY DEF Teardown
<1>2. Pairs(s, tracks) \subseteq AllPairs /\ UNCHANGED <<program, connections, describing>>
  BY DEF Teardown, InSession, Pairs, AllPairs
<1> QED
  BY <1>1, <1>2, TracksAndNotesGone

\* The end of a session keeps the invariant.
LEMMA LivenessTimeoutKeepsIInv ==
  ASSUME IInv, NEW s \in SessionIds, LivenessTimeout(s)
  PROVE  IInv'
<1>1. /\ s \in DOMAIN sessions /\ fTCPStreamingDatabase' = Unnoted(TracksLeft(s))
      /\ DeleteTracks(TracksLeft(s), {s}, {})
      /\ UNCHANGED <<program, connections, describing>>
  BY DEF LivenessTimeout
<1>2. TracksLeft(s) \subseteq AllPairs
  BY <1>1 DEF AllPairs
<1> QED
  BY <1>1, <1>2, TracksAndNotesGone

\* The tracks that are sent over a socket.
SentOver(socket) ==
    {<<record.session, record.track>> :
        record \in {record \in fTCPStreamingDatabase : record.socket = socket}}

\* What stopTCPStreamingOnSocket() deletes and forgets.
LEMMA StoppedAre ==
  ASSUME IInv, NEW socket, NEW described, StopTCPStreaming(socket, described)
  PROVE  /\ DeleteTracks(SentOver(socket), {}, described)
         /\ SentOver(socket) \subseteq AllPairs
         /\ \A pair \in SentOver(socket) : SocketMap[pair] = socket
         /\ fTCPStreamingDatabase' \subseteq fTCPStreamingDatabase
         /\ \A record \in fTCPStreamingDatabase :
               /\ record \in fTCPStreamingDatabase' <=> record.socket # socket
               /\ record \in fTCPStreamingDatabase'
                      <=> <<record.session, record.track>> \notin SentOver(socket)
<1> DEFINE records == {record \in fTCPStreamingDatabase : record.socket = socket}
           pairs == {<<record.session, record.track>> :
                        record \in {record \in records :
                            record.session \in DOMAIN sessions
                            /\ State(<<record.session,
                                       record.track>>).subsession}}
<1>1. /\ fTCPStreamingDatabase' = fTCPStreamingDatabase \ records
      /\ DeleteTracks(pairs, {}, described)
  BY DEF StopTCPStreaming
<1>2. ASSUME NEW record \in fTCPStreamingDatabase
      PROVE  /\ <<record.session, record.track>> \in AllPairs
             /\ record.session \in DOMAIN sessions
             /\ State(<<record.session, record.track>>).subsession
             /\ SocketMap[<<record.session, record.track>>] = record.socket
  <2>1. /\ <<record.session, record.track>> \in AllPairs
        /\ SocketMap[<<record.session, record.track>>] = record.socket
    BY Maps DEF IInv, NotesSound
  <2> QED
    BY <2>1, PairsOf DEF State
<1>3. pairs = SentOver(socket)
  BY <1>2 DEF SentOver
<1>4. \A pair \in SentOver(socket) : pair \in AllPairs /\ SocketMap[pair] = socket
  BY <1>2 DEF SentOver
<1>5. ASSUME NEW record \in fTCPStreamingDatabase
      PROVE  record.socket # socket
                 <=> <<record.session, record.track>> \notin SentOver(socket)
  BY <1>2, <1>4 DEF SentOver
<1> QED
  BY <1>1, <1>3, <1>4, <1>5

\* stopTCPStreamingOnSocket() keeps the invariant, as no connection but those
\* that are left goes over a socket that is noted.
LEMMA StopKeepsIInv ==
  ASSUME IInv, program' = program, NEW socket, NEW described,
         StopTCPStreaming(socket, described),
         \/ described = {} /\ describing' = describing
         \/ /\ describing # <<>> /\ described = {Last(describing).media}
            /\ describing' = Front(describing),
         connections' \in [Connections -> [socket : Sockets \cup {NULL}, closed : BOOLEAN]],
         \A c \in Connections : connections[c].socket \notin {socket, NULL}
             => connections'[c].socket = connections[c].socket
  PROVE  IInv'
<1> DEFINE pairs == SentOver(socket)
<1>1. /\ DeleteTracks(pairs, {}, described) /\ pairs \subseteq AllPairs
      /\ fTCPStreamingDatabase' \subseteq fTCPStreamingDatabase
      /\ \A record \in fTCPStreamingDatabase :
            /\ record \in fTCPStreamingDatabase' <=> record.socket # socket
            /\ record \in fTCPStreamingDatabase'
                   <=> <<record.session, record.track>> \notin pairs
  BY StoppedAre
<1> HIDE DEF pairs
<1>2. /\ SessionsSound' /\ LiveStreamIsFed'
      /\ MediaSound(media', fServerMediaSessions', UsesMap')
      /\ StreamsSound(streams', fLastStreamToken', TokenMap', MediaMap')
      /\ DestinationsSound(streams', destinations', TokenMap', SocketMap')
      /\ describing' \in Seq(Descriptions) /\ callback' \in Streams \cup {NULL}
      /\ stale' \subseteq SessionIds \X Tracks
      /\ TokenMap' = Without(TokenMap, pairs) /\ SocketMap' = Without(SocketMap, pairs)
      /\ \A pair \in AllPairs' : pair \in stale => pair \in stale'
      /\ destinations' = {d \in destinations : <<d.session, d.track>> \notin pairs}
  <2> DEFINE none == {}
  <2>1. /\ none \subseteq DOMAIN sessions /\ \A s \in none : TracksLeft(s) \subseteq pairs
        /\ DeleteTracks(pairs, none, described)
    BY <1>1
  <2> HIDE DEF none
  <2> QED
    BY <1>1, <2>1, TracksGone
<1>3. /\ NotesSound(destinations, fTCPStreamingDatabase, TokenMap, SocketMap, stale)
      /\ DestinationsSound(streams, destinations, TokenMap, SocketMap) /\ SessionsSound
      /\ NotedAreConnected
  BY DEF IInv
<1>4. AllPairs' = AllPairs \ pairs
  <2> DEFINE none == {}
  <2>1. /\ none \subseteq DOMAIN sessions /\ \A s \in none : TracksLeft(s) \subseteq pairs
        /\ DeleteTracks(pairs, none, described)
    BY <1>1
  <2> HIDE DEF none
  <2> QED
    BY <1>1, <1>3, <2>1, SessionsLeft
<1>5. NotesSound(destinations', fTCPStreamingDatabase', TokenMap', SocketMap', stale')
  <2>1. \A d \in destinations' : <<d.session, d.track>> \in AllPairs
    BY <1>2, <1>3, Maps DEF DestinationsSound
  <2> QED
    BY <1>1, <1>2, <1>3, <1>4, <2>1, NotesLeft
<1>6. NotedAreConnected'
  <2>1. ASSUME NEW record \in fTCPStreamingDatabase'
        PROVE  \E c \in Connections : connections'[c].socket = record.socket
    <3>1. record \in fTCPStreamingDatabase /\ record.socket # socket
      BY <1>1
    <3>2. record.socket \in Sockets /\ NULL \notin Sockets
      BY <1>3, <3>1, ServerAssumption DEF NotesSound
    <3>3. PICK c \in Connections : connections[c].socket = record.socket
      BY <1>3, <3>1 DEF NotedAreConnected
    <3> QED
      BY <3>1, <3>2, <3>3
  <2> QED
    BY <2>1 DEF NotedAreConnected
<1>7. Others'
  BY <1>2 DEF IInv, Others, Tracks
<1> QED
  BY <1>2, <1>5, <1>6, <1>7, Sound

\* A connection that is closed keeps the invariant.
LEMMA ConnectionClosesKeepsIInv ==
  ASSUME IInv, NEW c \in Connections, ConnectionCloses(c)
  PROVE  IInv'
<1>1. connections \in [Connections -> [socket : Sockets \cup {NULL}, closed : BOOLEAN]]
  BY DEF IInv, Others
<1>2. program' = program /\ describing' = describing
  BY DEF ConnectionCloses
<1>3. CASE /\ ~Describing(c)
           /\ StopTCPStreaming(connections[c].socket, {})
           /\ connections' = [connections EXCEPT ![c] = NoConnection]
  <2>1. connections' \in [Connections -> [socket : Sockets \cup {NULL}, closed : BOOLEAN]]
    BY <1>1, <1>3 DEF NoConnection
  <2>2. \A other \in Connections :
           connections[other].socket \notin {connections[c].socket, NULL}
               => connections'[other].socket = connections[other].socket
    BY <1>1, <1>3
  <2> QED
    BY <1>2, <1>3, <2>1, <2>2, StopKeepsIInv
<1>4. CASE /\ Describing(c)
           /\ connections' = [connections EXCEPT ![c].closed = TRUE]
           /\ UNCHANGED <<mediaVars, streamVars, sessions,
                          fTCPStreamingDatabase, callback, stale>>
  <2>1. connections[c] \in [socket : Sockets \cup {NULL}, closed : BOOLEAN]
    BY <1>1
  <2>2. /\ [connections[c] EXCEPT !.closed = TRUE]
              \in [socket : Sockets \cup {NULL}, closed : BOOLEAN]
        /\ [connections[c] EXCEPT !.closed = TRUE].socket = connections[c].socket
    BY <2>1
  <2>3. connections' = [connections EXCEPT ![c] = [connections[c] EXCEPT !.closed = TRUE]]
    BY <1>4
  <2>4. /\ connections' \in [Connections -> [socket : Sockets \cup {NULL}, closed : BOOLEAN]]
        /\ \A other \in Connections :
              connections'[other].socket = connections[other].socket
    BY <1>1, <2>2, <2>3
  <2>5. /\ TokenMap' = TokenMap /\ MediaMap' = MediaMap /\ SocketMap' = SocketMap
        /\ SessionsSound' /\ UsesMap' = UsesMap
    BY <1>2, <1>4, SessionsUnchanged DEF IInv
  <2>6. Others' /\ NotedAreConnected' /\ LiveStreamIsFed'
    <3>1. Others'
      BY <1>2, <1>4, <2>4 DEF IInv, Others, Tracks, streamVars, mediaVars
    <3>2. NotedAreConnected'
      BY <1>4, <2>4 DEF IInv, NotedAreConnected
    <3>3. LiveStreamIsFed'
      BY <1>2, <1>4 DEF IInv, LiveStreamIsFed, streamVars, mediaVars
    <3> QED
      BY <3>1, <3>2, <3>3
  <2> QED
    BY <1>2, <1>4, <2>5, <2>6, Sound DEF IInv, streamVars, mediaVars
<1> QED
  BY <1>3, <1>4 DEF ConnectionCloses

\* The innermost description, and the connection it is for.
LEMMA InnermostDescription ==
  ASSUME IInv, describing # <<>>
  PROVE  /\ Last(describing).connection \in Connections /\ Last(describing).media \in Media
         /\ Front(describing) \in Seq(Descriptions)
         /\ UsesMap = [Uses(sessions, Front(describing)) EXCEPT
                           ![Last(describing).media] = @ + 1]
<1>1. IsFiniteSet(DOMAIN sessions) /\ describing \in Seq(Descriptions)
  BY DEF IInv, SessionsSound, Others
<1> DEFINE d == Last(describing)
<1>2. /\ d \in Descriptions /\ Front(describing) \in Seq(Descriptions)
      /\ UsesMap = [Uses(sessions, Front(describing)) EXCEPT ![d.media] = @ + 1]
  BY <1>1, OneDescriptionLess DEF UsesMap
<1> HIDE DEF d
<1>3. d.connection \in Connections /\ d.media \in Media
  BY <1>2 DEF Descriptions
<1> QED
  BY <1>2, <1>3 DEF d

\* The rest of a DESCRIBE whose connection was closed keeps the invariant.
LEMMA DescribedForNobodyKeepsIInv ==
  ASSUME IInv, DescribedForNobody
  PROVE  IInv'
<1> DEFINE c == Last(describing).connection
           socket == connections[c].socket
<1>1. connections \in [Connections -> [socket : Sockets \cup {NULL}, closed : BOOLEAN]]
  BY DEF IInv, Others
<1>2. /\ describing # <<>> /\ describing' = Front(describing) /\ program' = program
      /\ StopTCPStreaming(socket, {Last(describing).media})
      /\ connections' = [other \in Connections |->
             IF other = c THEN NoConnection
             ELSE IF connections[other].socket = socket
             THEN [socket |-> NULL, closed |-> TRUE]
             ELSE connections[other]]
  BY DEF DescribedForNobody
<1>3. c \in Connections
  BY <1>2, InnermostDescription
<1>4. connections' \in [Connections -> [socket : Sockets \cup {NULL}, closed : BOOLEAN]]
  BY <1>1, <1>2 DEF NoConnection
<1>5. \A other \in Connections : connections[other].socket \notin {socket, NULL}
          => connections'[other].socket = connections[other].socket
  BY <1>2
<1> QED
  BY <1>2, <1>4, <1>5, StopKeepsIInv

\* The rest of a DESCRIBE keeps the invariant.
LEMMA DescribedKeepsIInv ==
  ASSUME IInv, Described
  PROVE  IInv'
<1> DEFINE m == Last(describing).media
           released == [n \in DOMAIN media |-> IF n = m THEN 1 ELSE 0]
           later == UsesMap'
<1>1. /\ describing # <<>> /\ GiveUpMedia(released) /\ describing' = Front(describing)
      /\ UNCHANGED <<program, connections, streamVars, sessions,
                     fTCPStreamingDatabase, callback, stale>>
  BY DEF Described
<1>2. /\ m \in Media /\ describing' \in Seq(Descriptions)
      /\ UsesMap = [later EXCEPT ![m] = @ + 1]
  BY <1>1, InnermostDescription DEF UsesMap
<1>3. IsFiniteSet(DOMAIN sessions) /\ MediaSound(media, fServerMediaSessions, UsesMap)
  BY DEF IInv, SessionsSound
<1>4. later \in [Media -> Nat]
  BY <1>1, <1>2, <1>3, UsesCount DEF UsesMap
<1>5. /\ \A n \in DOMAIN media : released[n] \in Nat /\ released[n] <= UsesMap[n]
                                 /\ later[n] = UsesMap[n] - released[n]
      /\ \A n \in Media \ DOMAIN media : later[n] = UsesMap[n]
  <2> DEFINE now == UsesMap
  <2>1. DOMAIN media \subseteq Media /\ \A n \in Media : now[n] # 0 => n \in DOMAIN media
    BY <1>3 DEF MediaSound
  <2> HIDE DEF m, later, now
  <2>2. now = [later EXCEPT ![m] = later[m] + 1]
    BY <1>2 DEF now
  <2>3. \A n \in Media : now[n] = IF n = m THEN later[n] + 1 ELSE later[n]
    BY <1>2, <1>4, <2>2
  <2>4. m \in DOMAIN media
    <3>1. now[m] # 0
      BY <1>2, <1>4, <2>3
    <3> QED
      BY <1>2, <2>1, <3>1
  <2> QED
    BY <1>2, <1>4, <2>1, <2>3, <2>4 DEF now
<1>6. released \in [DOMAIN media -> Nat]
  OBVIOUS
<1> HIDE DEF released, m, later
<1>7. /\ MediaSound(media', fServerMediaSessions', later)
      /\ \A n \in DOMAIN media' :
            n \in DOMAIN media /\ media'[n].described = media[n].described
  BY <1>1, <1>3, <1>4, <1>5, <1>6, GivenUpSound
<1>8. /\ TokenMap' = TokenMap /\ MediaMap' = MediaMap /\ SocketMap' = SocketMap
      /\ SessionsSound'
  BY <1>1, SessionsUnchanged DEF IInv
<1>9. LiveStreamIsFed'
  <2>1. /\ StreamsSound(streams', fLastStreamToken', TokenMap', MediaMap')
        /\ \A pair \in DOMAIN TokenMap' : MediaMap'[pair] \in Media /\ later[MediaMap'[pair]] # 0
    <3>1. StreamsSound(streams', fLastStreamToken', TokenMap', MediaMap')
      BY <1>1, <1>8 DEF IInv, streamVars
    <3>2. ASSUME NEW pair \in AllPairs
          PROVE  MediaMap[pair] \in Media /\ later[MediaMap[pair]] # 0
      <4>1. /\ MediaMap[pair] = sessions[pair[1]].media /\ pair[1] \in DOMAIN sessions
            /\ sessions[pair[1]].media \in Media
        BY Maps, PairsSound DEF IInv
      <4>2. later = Uses(sessions, describing')
        BY <1>1 DEF UsesMap, later
      <4> QED
        BY <1>2, <1>3, <4>1, <4>2, UsesCount
    <3> QED
      BY <1>8, <3>1, <3>2, Maps
  <2>2. \A x \in DOMAIN streams' : streams'[x].media \in DOMAIN media'
    BY <1>7, <2>1, StreamsHaveMedia
  <2> QED
    BY <1>1, <1>7, <2>2 DEF IInv, LiveStreamIsFed, streamVars
<1>10. Others' /\ NotedAreConnected'
  BY <1>1, <1>2 DEF IInv, Others, NotedAreConnected, Tracks
<1> QED
  BY <1>1, <1>7, <1>8, <1>9, <1>10, Sound DEF IInv, streamVars, later

-----------------------------------------------------------------------------
(***************************************************************************)
(* Steps that change streams only.                                         *)
(***************************************************************************)

\* A stream is changed, but not what it is of, and it is reclaimed only when it
\* is not a last one any more.
LEMMA StreamStep ==
  ASSUME IInv,
         UNCHANGED <<program, connections, mediaVars, destinations, sessions,
                     fTCPStreamingDatabase, describing, callback, stale>>,
         DOMAIN streams' = DOMAIN streams,
         \A x \in DOMAIN streams :
            /\ streams'[x] \in StreamRecord /\ streams'[x].media = streams[x].media
            /\ streams'[x].track = streams[x].track
            /\ streams'[x].referenceCount = streams[x].referenceCount
            /\ \A target \in streams'[x].targets :
                  \/ target \in streams[x].targets
                  \/ \E d \in destinations :
                        /\ d.session = target.session /\ d.socket = target.socket
                        /\ TokenMap[<<d.session, d.track>>] = x,
         fLastStreamToken' \in [Keys -> Streams \cup {NULL}],
         \A key \in Keys : fLastStreamToken'[key] # NULL =>
            /\ fLastStreamToken'[key] = fLastStreamToken[key]
            /\ \/ ~streams'[fLastStreamToken[key]].reclaimed
               \/ streams'[fLastStreamToken[key]].reclaimed
                      = streams[fLastStreamToken[key]].reclaimed,
         program = "live" => fLastStreamToken' = fLastStreamToken
  PROVE  IInv'
<1>1. /\ TokenMap' = TokenMap /\ MediaMap' = MediaMap /\ SocketMap' = SocketMap
      /\ SessionsSound' /\ UsesMap' = UsesMap
  BY SessionsUnchanged DEF IInv
<1>2. /\ StreamsSound(streams, fLastStreamToken, TokenMap, MediaMap)
      /\ DestinationsSound(streams, destinations, TokenMap, SocketMap)
  BY DEF IInv
<1>3. StreamsSound(streams', fLastStreamToken', TokenMap', MediaMap')
  <2>1. \A x \in DOMAIN streams' :
           /\ streams'[x] \in StreamRecord
           /\ streams'[x].referenceCount
                  = Cardinality({pair \in DOMAIN TokenMap : TokenMap[pair] = x})
           /\ \E pair \in DOMAIN TokenMap : TokenMap[pair] = x
    BY <1>2 DEF StreamsSound
  <2>2. \A pair \in DOMAIN TokenMap : TokenMap[pair] # NULL =>
           /\ TokenMap[pair] \in DOMAIN streams'
           /\ streams'[TokenMap[pair]].media = MediaMap[pair]
           /\ streams'[TokenMap[pair]].track = pair[2]
    BY <1>2 DEF StreamsSound
  <2>3. \A key \in Keys : fLastStreamToken'[key] # NULL =>
           /\ fLastStreamToken'[key] \in DOMAIN streams'
           /\ ~streams'[fLastStreamToken'[key]].reclaimed
           /\ key = <<streams'[fLastStreamToken'[key]].media,
                      streams'[fLastStreamToken'[key]].track>>
    BY <1>2 DEF StreamsSound
  <2>4. program = "live" => \A x \in DOMAIN streams' :
           fLastStreamToken'[<<streams'[x].media, streams'[x].track>>] = x
    BY <1>2 DEF StreamsSound
  <2>5. DOMAIN streams' \subseteq Streams /\ IsFiniteSet(DOMAIN TokenMap)
    BY <1>2 DEF StreamsSound
  <2> DEFINE all == streams'
             last == fLastStreamToken'
             tokens == TokenMap
             of == MediaMap
  <2>6. last \in [Keys -> Streams \cup {NULL}]
    OBVIOUS
  <2> HIDE DEF all, last, tokens, of
  <2>7. StreamsSound(all, last, tokens, of)
    BY <2>1, <2>2, <2>3, <2>4, <2>5, <2>6 DEF StreamsSound, all, last, tokens, of
  <2> QED
    BY <1>1, <2>7 DEF all, last, tokens, of
<1>4. DestinationsSound(streams', destinations', TokenMap', SocketMap')
  <2>1. \A x \in DOMAIN streams' : \A target \in streams'[x].targets :
           \E d \in destinations :
              /\ d.session = target.session /\ d.socket = target.socket
              /\ TokenMap[<<d.session, d.track>>] = x
    BY <1>2 DEF DestinationsSound
  <2> QED
    BY <1>1, <1>2, <2>1 DEF DestinationsSound
<1>5. Others' /\ NotedAreConnected' /\ LiveStreamIsFed'
  BY DEF IInv, Others, NotedAreConnected, LiveStreamIsFed, Tracks, mediaVars
<1> QED
  BY <1>1, <1>3, <1>4, <1>5, Sound DEF IInv, mediaVars

\* PLAY keeps the invariant: the new targets are destinations of the stream.
LEMMA PlayKeepsIInv ==
  ASSUME IInv, NEW c \in Connections, NEW s \in SessionIds, Play(c, s)
  PROVE  IInv'
<1>1. PICK tracks \in Chosen(s) :
         streams' = [x \in DOMAIN streams |->
             LET pairs == {pair \in Pairs(s, tracks) : Token(pair) = x}
                 clients == {[session |-> s, socket |-> d.socket] :
                                d \in {d \in destinations :
                                          <<d.session, d.track>> \in pairs}}
             IN  IF pairs = {} THEN streams[x] ELSE Started(x, clients)]
  BY DEF Play
<1> DEFINE pairs(x) == {pair \in Pairs(s, tracks) : Token(pair) = x}
           clients(x) == {[session |-> s, socket |-> d.socket] :
                             d \in {d \in destinations :
                                       <<d.session, d.track>> \in pairs(x)}}
<1>2. /\ StreamsSound(streams, fLastStreamToken, TokenMap, MediaMap)
      /\ DestinationsSound(streams, destinations, TokenMap, SocketMap)
  BY DEF IInv
<1>3. ASSUME NEW x \in DOMAIN streams, NEW target \in clients(x)
      PROVE  /\ target \in Target
             /\ \E d \in destinations :
                   /\ d.session = target.session /\ d.socket = target.socket
                   /\ TokenMap[<<d.session, d.track>>] = x
  <2>1. PICK d \in destinations : /\ target = [session |-> s, socket |-> d.socket]
                                  /\ <<d.session, d.track>> \in pairs(x)
    OBVIOUS
  <2>2. d.socket \in Sockets \cup {UDP}
    BY <1>2 DEF DestinationsSound
  <2>3. d.session = s /\ <<d.session, d.track>> \in AllPairs
    <3>1. <<d.session, d.track>> \in TracksLeft(s)
      BY <2>1 DEF Pairs
    <3>2. d.session = s
      BY <3>1 DEF TracksLeft
    <3>3. s \in DOMAIN sessions
      BY DEF Play, InSession
    <3> QED
      BY <3>1, <3>2, <3>3 DEF AllPairs
  <2>4. TokenMap[<<d.session, d.track>>] = x
    BY <2>1, <2>3, Maps
  <2> QED
    BY <2>1, <2>2, <2>3, <2>4 DEF Target
<1>4. ASSUME NEW x \in DOMAIN streams
      PROVE  /\ streams'[x] \in StreamRecord /\ streams'[x].media = streams[x].media
             /\ streams'[x].track = streams[x].track
             /\ streams'[x].referenceCount = streams[x].referenceCount
             /\ \A target \in streams'[x].targets :
                   target \in streams[x].targets \/ target \in clients(x)
             /\ streams'[x].reclaimed = streams[x].reclaimed
  <2>1. streams[x] \in StreamRecord
    BY <1>2 DEF StreamsSound
  <2>2. streams'[x] = IF pairs(x) = {} THEN streams[x] ELSE Started(x, clients(x))
    BY <1>1
  <2> DEFINE more == clients(x)
             runs == streams[x].running \/ ~streams[x].playing
  <2>3. more \subseteq Target
    BY <1>3
  <2>4. runs \in BOOLEAN
    OBVIOUS
  <2>5. \/ streams'[x] = streams[x]
        \/ streams'[x] = [streams[x] EXCEPT !.targets = @ \cup more,
                                            !.playing = TRUE, !.running = runs]
    BY <2>2 DEF Started
  <2> HIDE DEF more, runs
  <2> QED
    BY <2>1, <2>3, <2>4, <2>5 DEF StreamRecord, more
<1>5. UNCHANGED <<program, connections, mediaVars, fLastStreamToken,
                  destinations, sessions, fTCPStreamingDatabase, describing,
                  callback, stale>>
  BY DEF Play
<1>6. fLastStreamToken' \in [Keys -> Streams \cup {NULL}]
  BY <1>2, <1>5 DEF StreamsSound
<1>7. DOMAIN streams' = DOMAIN streams
  BY <1>1
<1>8. ASSUME NEW key \in Keys, fLastStreamToken'[key] # NULL
      PROVE  /\ fLastStreamToken'[key] = fLastStreamToken[key]
             /\ streams'[fLastStreamToken[key]].reclaimed
                    = streams[fLastStreamToken[key]].reclaimed
  BY <1>2, <1>4, <1>5, <1>8 DEF StreamsSound
<1> HIDE DEF clients, pairs
<1> QED
  BY <1>3, <1>4, <1>5, <1>6, <1>7, <1>8, StreamStep

\* PAUSE keeps the invariant.
LEMMA PauseKeepsIInv ==
  ASSUME IInv, NEW c \in Connections, NEW s \in SessionIds, Pause(c, s)
  PROVE  IInv'
<1>1. PICK tracks \in Chosen(s) :
         streams' = [x \in DOMAIN streams |->
             IF \E pair \in Pairs(s, tracks) : Token(pair) = x
             THEN Paused(streams[x]) ELSE streams[x]]
  BY DEF Pause
<1>2. StreamsSound(streams, fLastStreamToken, TokenMap, MediaMap)
  BY DEF IInv
<1>3. ASSUME NEW x \in DOMAIN streams
      PROVE  /\ streams'[x] \in StreamRecord /\ streams'[x].media = streams[x].media
             /\ streams'[x].track = streams[x].track
             /\ streams'[x].referenceCount = streams[x].referenceCount
             /\ streams'[x].targets = streams[x].targets
             /\ streams'[x].reclaimed = streams[x].reclaimed
  <2>1. streams[x] \in StreamRecord
    BY <1>2 DEF StreamsSound
  <2>2. \/ streams'[x] = streams[x]
        \/ streams'[x] = [streams[x] EXCEPT !.playing = FALSE, !.running = FALSE]
    BY <1>1 DEF Paused
  <2> QED
    BY <2>1, <2>2 DEF StreamRecord
<1>4. UNCHANGED <<program, connections, mediaVars, fLastStreamToken,
                  destinations, sessions, fTCPStreamingDatabase, describing,
                  callback, stale>>
  BY DEF Pause
<1>5. fLastStreamToken' \in [Keys -> Streams \cup {NULL}]
  BY <1>2, <1>4 DEF StreamsSound
<1>6. DOMAIN streams' = DOMAIN streams
  BY <1>1
<1>7. ASSUME NEW key \in Keys, fLastStreamToken'[key] # NULL
      PROVE  /\ fLastStreamToken'[key] = fLastStreamToken[key]
             /\ streams'[fLastStreamToken[key]].reclaimed
                    = streams[fLastStreamToken[key]].reclaimed
  BY <1>2, <1>3, <1>4, <1>7 DEF StreamsSound
<1> QED
  BY <1>3, <1>4, <1>5, <1>6, <1>7, StreamStep

\* A send that fails keeps the invariant.
LEMMA SendFailsKeepsIInv ==
  ASSUME IInv, NEW y \in Streams, NEW socket \in Sockets, SendFails(y, socket)
  PROVE  IInv'
<1>1. /\ y \in DOMAIN streams
      /\ streams' = [streams EXCEPT ![y].targets =
                        {target \in @ : target.socket # socket}]
      /\ UNCHANGED <<program, connections, mediaVars, fLastStreamToken,
                     destinations, sessions, fTCPStreamingDatabase, describing,
                     callback, stale>>
  BY DEF SendFails
<1>2. StreamsSound(streams, fLastStreamToken, TokenMap, MediaMap)
  BY DEF IInv
<1>3. ASSUME NEW x \in DOMAIN streams
      PROVE  /\ streams'[x] \in StreamRecord /\ streams'[x].media = streams[x].media
             /\ streams'[x].track = streams[x].track
             /\ streams'[x].referenceCount = streams[x].referenceCount
             /\ streams'[x].targets \subseteq streams[x].targets
             /\ streams'[x].reclaimed = streams[x].reclaimed
  <2> DEFINE fewer == {target \in streams[x].targets : target.socket # socket}
  <2>1. streams[x] \in StreamRecord
    BY <1>2 DEF StreamsSound
  <2>2. \/ streams'[x] = streams[x]
        \/ streams'[x] = [streams[x] EXCEPT !.targets = fewer]
    BY <1>1
  <2>3. fewer \subseteq streams[x].targets
    OBVIOUS
  <2> HIDE DEF fewer
  <2> QED
    BY <2>1, <2>2, <2>3 DEF StreamRecord
<1>5. fLastStreamToken' \in [Keys -> Streams \cup {NULL}]
  BY <1>1, <1>2 DEF StreamsSound
<1>6. DOMAIN streams' = DOMAIN streams
  BY <1>1
<1>7. ASSUME NEW key \in Keys, fLastStreamToken'[key] # NULL
      PROVE  /\ fLastStreamToken'[key] = fLastStreamToken[key]
             /\ streams'[fLastStreamToken[key]].reclaimed
                    = streams[fLastStreamToken[key]].reclaimed
  BY <1>1, <1>2, <1>3, <1>7 DEF StreamsSound
<1>8. \A x \in DOMAIN streams : \A target \in streams'[x].targets :
         target \in streams[x].targets
  BY <1>3
<1> QED
  BY <1>1, <1>3, <1>5, <1>6, <1>7, <1>8, StreamStep

\* The end of a source keeps the invariant: a stream that is reclaimed is not
\* the last one of its track any more.
LEMMA SourceEndsKeepsIInv ==
  ASSUME IInv, NEW y \in Streams, SourceEnds(y)
  PROVE  IInv'
<1>1. /\ y \in DOMAIN streams /\ program # "live"
      /\ UNCHANGED <<program, connections, mediaVars, destinations, sessions,
                     fTCPStreamingDatabase, describing, callback, stale>>
      /\ \/ /\ streams' = [streams EXCEPT ![y].running = FALSE,
                                          ![y].reclaimed = TRUE,
                                          ![y].targets = {}]
            /\ fLastStreamToken' = WithoutLast(y)
         \/ /\ streams' = [streams EXCEPT ![y].running = FALSE]
            /\ UNCHANGED fLastStreamToken
  BY DEF SourceEnds
<1>2. StreamsSound(streams, fLastStreamToken, TokenMap, MediaMap)
  BY DEF IInv
<1>3. DOMAIN streams' = DOMAIN streams
  BY <1>1
<1>4. ASSUME NEW x \in DOMAIN streams
      PROVE  /\ streams'[x] \in StreamRecord /\ streams'[x].media = streams[x].media
             /\ streams'[x].track = streams[x].track
             /\ streams'[x].referenceCount = streams[x].referenceCount
             /\ \A target \in streams'[x].targets : target \in streams[x].targets
             /\ \/ streams'[x].reclaimed = streams[x].reclaimed
                \/ x = y /\ fLastStreamToken' = WithoutLast(y)
  <2>1. streams[x] \in StreamRecord
    BY <1>2 DEF StreamsSound
  <2>2. \/ streams'[x] = streams[x]
        \/ streams'[x] = [streams[x] EXCEPT !.running = FALSE]
        \/ /\ streams'[x] = [streams[x] EXCEPT !.running = FALSE, !.reclaimed = TRUE,
                                               !.targets = {}]
           /\ x = y /\ fLastStreamToken' = WithoutLast(y)
    <3>1. CASE /\ streams' = [streams EXCEPT ![y].running = FALSE,
                                             ![y].reclaimed = TRUE,
                                             ![y].targets = {}]
               /\ fLastStreamToken' = WithoutLast(y)
      BY <1>1, <3>1
    <3>2. CASE streams' = [streams EXCEPT ![y].running = FALSE]
      BY <1>1, <3>2
    <3> QED
      BY <1>1, <3>1, <3>2
  <2> QED
    BY <2>1, <2>2 DEF StreamRecord
<1>5. fLastStreamToken \in [Keys -> Streams \cup {NULL}]
  BY <1>2 DEF StreamsSound
<1>6. fLastStreamToken' \in [Keys -> Streams \cup {NULL}]
  BY <1>1, <1>5 DEF WithoutLast
<1>7. ASSUME NEW key \in Keys, fLastStreamToken'[key] # NULL
      PROVE  /\ fLastStreamToken'[key] = fLastStreamToken[key]
             /\ streams'[fLastStreamToken[key]].reclaimed
                    = streams[fLastStreamToken[key]].reclaimed
  <2>1. /\ fLastStreamToken'[key] = fLastStreamToken[key]
        /\ fLastStreamToken' = WithoutLast(y) => fLastStreamToken[key] # y
    BY <1>1, <1>5, <1>7 DEF WithoutLast
  <2>2. fLastStreamToken[key] \in DOMAIN streams
    BY <1>2, <1>7, <2>1 DEF StreamsSound
  <2> QED
    BY <1>4, <2>1, <2>2
<1> QED
  BY <1>1, <1>3, <1>4, <1>6, <1>7, StreamStep

-----------------------------------------------------------------------------
(***************************************************************************)
(* Connections, descriptions and look-ups.                                 *)
(***************************************************************************)

\* A new connection keeps the invariant.
LEMMA ConnectKeepsIInv ==
  ASSUME IInv, NEW c \in Connections, NEW socket \in Sockets, Connect(c, socket)
  PROVE  IInv'
<1>1. /\ connections[c] = NoConnection
      /\ connections' = [connections EXCEPT ![c] = [@ EXCEPT !.socket = socket]]
      /\ UNCHANGED <<program, mediaVars, streamVars, sessions,
                     fTCPStreamingDatabase, describing, callback, stale>>
  BY DEF Connect
<1>2. connections \in [Connections -> [socket : Sockets \cup {NULL}, closed : BOOLEAN]]
  BY DEF IInv, Others
<1>3. /\ connections' \in [Connections -> [socket : Sockets \cup {NULL}, closed : BOOLEAN]]
      /\ \A other \in Connections : other # c => connections'[other] = connections[other]
      /\ connections[c].socket = NULL
  <2>1. /\ [connections[c] EXCEPT !.socket = socket]
               \in [socket : Sockets \cup {NULL}, closed : BOOLEAN]
        /\ connections[c].socket = NULL
    <3>1. connections[c] \in [socket : Sockets \cup {NULL}, closed : BOOLEAN]
      BY <1>2
    <3>2. connections[c].socket = NULL
      BY <1>1 DEF NoConnection
    <3> QED
      BY <3>1, <3>2
  <2>2. connections' = [connections EXCEPT ![c] = [connections[c] EXCEPT !.socket = socket]]
    BY <1>1
  <2> QED
    BY <1>2, <2>1, <2>2
<1>4. NotedAreConnected'
  <2>1. ASSUME NEW record \in fTCPStreamingDatabase
        PROVE  \E other \in Connections : connections'[other].socket = record.socket
    <3>1. record.socket \in Sockets /\ NULL \notin Sockets
      BY ServerAssumption DEF IInv, NotesSound
    <3>2. PICK other \in Connections : connections[other].socket = record.socket
      BY DEF IInv, NotedAreConnected
    <3> QED
      BY <1>3, <3>1, <3>2
  <2> QED
    BY <1>1, <2>1 DEF NotedAreConnected
<1>5. /\ TokenMap' = TokenMap /\ MediaMap' = MediaMap /\ SocketMap' = SocketMap
      /\ SessionsSound' /\ UsesMap' = UsesMap
  BY <1>1, SessionsUnchanged DEF IInv
<1>6. Others' /\ LiveStreamIsFed'
  BY <1>1, <1>3 DEF IInv, Others, LiveStreamIsFed, Tracks, mediaVars, streamVars
<1> QED
  BY <1>1, <1>4, <1>5, <1>6, Sound DEF IInv, mediaVars, streamVars

\* The file of a live stream is there.
LEMMA FileMayNotExist ==
  ASSUME NEW exists \in FileMayExist
  PROVE  exists \in BOOLEAN /\ (program = "live" => exists)
BY DEF FileMayExist

\* Beginning a DESCRIBE keeps the invariant.
LEMMA DescribeKeepsIInv ==
  ASSUME IInv, NEW c \in Connections, Describe(c)
  PROVE  IInv'
<1>1. PICK exists \in BOOLEAN :
         /\ fServerMediaSessions' = Found(TRUE, exists).sms
         /\ media' = IF Found(TRUE, exists).sms = NULL THEN Found(TRUE, exists).media
                     ELSE Referenced(Found(TRUE, exists).media, Found(TRUE, exists).sms)
         /\ describing' = IF Found(TRUE, exists).sms = NULL THEN describing
                          ELSE Append(describing, [connection |-> c,
                                                   media |-> Found(TRUE, exists).sms])
  BY DEF Describe
<1>2. /\ MayLookUp(TRUE) /\ program = "rawFile"
      /\ UNCHANGED <<program, connections, streamVars, sessions,
                     fTCPStreamingDatabase, callback, stale>>
  BY DEF Describe
<1> DEFINE found == Found(TRUE, exists)
           sms == found.sms
           all == found.media
<1>3. MediaSound(all, sms, UsesMap)
  BY <1>2, FoundSound DEF IInv
<1>4. /\ describing \in Seq(Descriptions) /\ IsFiniteSet(DOMAIN sessions)
  BY DEF IInv, Others, SessionsSound
<1> HIDE DEF found, sms, all
<1>5. /\ describing' \in Seq(Descriptions)
      /\ MediaSound(media', fServerMediaSessions', UsesMap')
  <2>1. CASE sms = NULL
    BY <1>1, <1>2, <1>3, <1>4, <2>1 DEF UsesMap, sms, all, found
  <2>2. CASE sms # NULL
    <3> DEFINE d == [connection |-> c, media |-> sms]
    <3>1. sms \in DOMAIN all /\ sms \in Media
      BY <1>3, <2>2 DEF MediaSound
    <3>2. d \in Descriptions /\ d.media = sms
      BY <3>1 DEF Descriptions
    <3>3. describing' = Append(describing, d) /\ media' = Referenced(all, sms)
      BY <1>1, <2>2 DEF sms, all, found
    <3> HIDE DEF d
    <3>4. /\ Append(describing, d) \in Seq(Descriptions)
          /\ Uses(sessions, Append(describing, d))
                 = [Uses(sessions, describing) EXCEPT ![d.media] = @ + 1]
      BY <1>4, <3>2, OneDescriptionMore
    <3>5. UsesMap' = [UsesMap EXCEPT ![sms] = @ + 1]
      BY <1>2, <3>2, <3>3, <3>4 DEF UsesMap
    <3>6. MediaSound(Referenced(all, sms), sms, [UsesMap EXCEPT ![sms] = @ + 1])
      BY <1>3, <3>1, ReferencedSound
    <3>7. fServerMediaSessions' = sms
      BY <1>1 DEF sms, found
    <3> QED
      BY <3>3, <3>4, <3>5, <3>6, <3>7
  <2> QED
    BY <2>1, <2>2
<1>6. /\ TokenMap' = TokenMap /\ MediaMap' = MediaMap /\ SocketMap' = SocketMap
      /\ SessionsSound'
  BY <1>2, SessionsUnchanged DEF IInv
<1>7. Others' /\ LiveStreamIsFed' /\ NotedAreConnected'
  BY <1>2, <1>5 DEF IInv, Others, LiveStreamIsFed, NotedAreConnected, Tracks
<1> QED
  BY <1>2, <1>5, <1>6, <1>7, Sound DEF IInv, streamVars

\* The streams that there are, and what a look-up leaves of their media.
LEMMA FoundForStreams ==
  ASSUME IInv, NEW first \in BOOLEAN, NEW exists \in FileMayExist, MayLookUp(first)
  PROVE  LET found == Found(first, exists)
         IN  /\ MediaSound(found.media, found.sms, UsesMap)
             /\ \A x \in DOMAIN streams :
                   /\ streams[x].media \in DOMAIN found.media
                   /\ found.media[streams[x].media].described
                          = media[streams[x].media].described
                   /\ program = "live" => found.sms = streams[x].media
             /\ program = "live" => found.sms \in DOMAIN found.media
<1>1. /\ MediaSound(media, fServerMediaSessions, UsesMap)
      /\ StreamsSound(streams, fLastStreamToken, TokenMap, MediaMap)
      /\ SessionsSound /\ describing \in Seq(Descriptions)
  BY DEF IInv, Others
<1> DEFINE found == Found(first, exists)
           sms == found.sms
           all == found.media
<1>2. /\ MediaSound(all, sms, UsesMap)
      /\ \A m \in Media : UsesMap[m] # 0 =>
            m \in DOMAIN all /\ all[m].described = media[m].described
      /\ program = "live" => sms \in DOMAIN all
  BY <1>1, FileMayNotExist, FoundSound
<1>3. \A x \in DOMAIN streams : /\ streams[x].media \in DOMAIN media
                                /\ UsesMap[streams[x].media] # 0
  BY <1>1, PairsUseMedia, StreamsHaveMedia
<1>4. DOMAIN media \subseteq Media
  BY <1>1 DEF MediaSound
<1> HIDE DEF found, sms, all
<1>5. ASSUME NEW x \in DOMAIN streams
      PROVE  /\ streams[x].media \in DOMAIN all
             /\ all[streams[x].media].described = media[streams[x].media].described
             /\ program = "live" => sms = streams[x].media
  <2>1. /\ streams[x].media \in DOMAIN all
        /\ all[streams[x].media].described = media[streams[x].media].described
    BY <1>2, <1>3, <1>4
  <2>2. program = "live" => DOMAIN all \subseteq {sms}
    BY <1>2 DEF MediaSound
  <2> QED
    BY <2>1, <2>2
<1> QED
  BY <1>2, <1>5 DEF sms, all, found

\* A DESCRIBE that is made at once keeps the invariant.
LEMMA DescribeAtOnceKeepsIInv ==
  ASSUME IInv, NEW c \in Connections, DescribeAtOnce(c)
  PROVE  IInv'
<1> DEFINE first(found) == /\ program = "live"
                           /\ found.media[found.sms].described = "no"
           when == IF streams = <<>> THEN "early" ELSE "late"
<1>1. PICK exists \in FileMayExist :
         LET found == Found(TRUE, exists)
         IN  /\ fServerMediaSessions' = found.sms
             /\ media' = IF first(found)
                         THEN [found.media EXCEPT ![found.sms].described = when]
                         ELSE found.media
             /\ callback' = IF first(found) THEN NULL ELSE callback
  BY DEF DescribeAtOnce
<1>2. /\ MayLookUp(TRUE)
      /\ UNCHANGED <<program, connections, streamVars, sessions,
                     fTCPStreamingDatabase, describing, stale>>
  BY DEF DescribeAtOnce
<1> DEFINE found == Found(TRUE, exists)
           sms == found.sms
           all == found.media
           isFirst == first(found)
<1>3. /\ MediaSound(all, sms, UsesMap)
      /\ \A x \in DOMAIN streams :
            /\ streams[x].media \in DOMAIN all
            /\ all[streams[x].media].described = media[streams[x].media].described
            /\ program = "live" => sms = streams[x].media
      /\ program = "live" => sms \in DOMAIN all
  BY <1>2, FoundForStreams
<1>4. /\ fServerMediaSessions' = sms
      /\ media' = IF isFirst THEN [all EXCEPT ![sms].described = when] ELSE all
      /\ callback' = IF isFirst THEN NULL ELSE callback
      /\ isFirst => program = "live"
  BY <1>1
<1> HIDE DEF found, sms, all, isFirst, first, when
<1>5. /\ DOMAIN media' = DOMAIN all
      /\ isFirst => media'[sms].described = when
      /\ ~isFirst => media' = all
      /\ \A m \in DOMAIN all :
            /\ media'[m] \in MediaRecord
            /\ media'[m].referenceCount = all[m].referenceCount
            /\ media'[m].deleteWhenUnreferenced <=> all[m].deleteWhenUnreferenced
  <2>1. CASE ~isFirst
    BY <1>3, <1>4, <2>1 DEF MediaSound
  <2>2. CASE isFirst
    <3>1. sms \in DOMAIN all
      BY <1>3, <1>4, <2>2
    <3>2. /\ DOMAIN media' = DOMAIN all
          /\ media'[sms] = [all[sms] EXCEPT !.described = when]
          /\ \A m \in DOMAIN all : m # sms => media'[m] = all[m]
      BY <1>4, <2>2, <3>1
    <3>3. all[sms] \in MediaRecord /\ when \in {"early", "late"}
      BY <1>3, <3>1 DEF MediaSound, when
    <3>4. /\ media'[sms] \in MediaRecord /\ media'[sms].described = when
          /\ media'[sms].referenceCount = all[sms].referenceCount
          /\ media'[sms].deleteWhenUnreferenced <=> all[sms].deleteWhenUnreferenced
      BY <3>2, <3>3 DEF MediaRecord
    <3> QED
      BY <1>3, <2>2, <3>2, <3>4 DEF MediaSound
  <2> QED
    BY <2>1, <2>2
<1>6. /\ TokenMap' = TokenMap /\ MediaMap' = MediaMap /\ SocketMap' = SocketMap
      /\ SessionsSound' /\ UsesMap' = UsesMap
  BY <1>2, SessionsUnchanged DEF IInv
<1>7. MediaSound(media', fServerMediaSessions', UsesMap')
  BY <1>3, <1>4, <1>5, <1>6 DEF MediaSound
<1>8. LiveStreamIsFed'
  <2>1. ASSUME program = "live", NEW x \in DOMAIN streams
        PROVE  callback' = x \/ media'[streams[x].media].described = "late"
    <3>1. CASE isFirst
      <4>1. streams # <<>>
        OBVIOUS
      <4> QED
        BY <1>3, <1>5, <2>1, <3>1, <4>1 DEF when
    <3>2. CASE ~isFirst
      <4>1. callback = x \/ media[streams[x].media].described = "late"
        BY <2>1 DEF IInv, LiveStreamIsFed
      <4> QED
        BY <1>3, <1>4, <1>5, <3>2, <4>1
    <3> QED
      BY <3>1, <3>2
  <2> QED
    BY <1>2, <2>1 DEF LiveStreamIsFed, streamVars
<1>9. Others' /\ NotedAreConnected'
  BY <1>2, <1>4 DEF IInv, Others, NotedAreConnected, Tracks
<1> QED
  BY <1>2, <1>6, <1>7, <1>8, <1>9, Sound DEF IInv, streamVars

\* A session that was not set up yet changes nothing of what sessions refer to.
LEMMA NewSessionSound ==
  ASSUME SessionsSound, program' = program, NEW s \in SessionIds,
         DOMAIN sessions' = DOMAIN sessions \cup {s},
         \A other \in DOMAIN sessions : sessions'[other] = sessions[other],
         s \notin DOMAIN sessions => sessions'[s] = NewSession,
         describing' = describing
  PROVE  /\ TokenMap' = TokenMap /\ MediaMap' = MediaMap /\ SocketMap' = SocketMap
         /\ SessionsSound' /\ UsesMap' = UsesMap
<1>1. /\ NewSession \in [media : Media \cup {NULL},
                         tracks : {<<>>} \cup [Tracks -> TrackState]]
      /\ NewSession.media = NULL /\ NewSession.tracks = <<>>
  BY DEF NewSession
<1>2. SessionsSound'
  <2>1. IsFiniteSet(DOMAIN sessions')
    BY FS_AddElement DEF SessionsSound
  <2>2. DOMAIN sessions' \subseteq SessionIds
    BY DEF SessionsSound
  <2>3. \A other \in DOMAIN sessions' :
           /\ sessions'[other] \in [media : Media \cup {NULL},
                                    tracks : {<<>>} \cup [Tracks -> TrackState]]
           /\ sessions'[other].media = NULL => sessions'[other].tracks = <<>>
           /\ sessions'[other].media # NULL
                  => sessions'[other].tracks \in [Tracks -> TrackState]
    BY <1>1 DEF SessionsSound
  <2> QED
    BY <2>1, <2>2, <2>3 DEF SessionsSound, TrackState, Tracks
<1>3. ASSUME NEW pair
      PROVE  pair \in AllPairs' <=> pair \in AllPairs
  <2>1. ASSUME NEW other, NEW t
        PROVE  <<other, t>> \in AllPairs' <=> <<other, t>> \in AllPairs
    BY <1>1, PairsOf
  <2> QED
    BY <2>1, PairsOf
<1>4. ASSUME NEW pair \in AllPairs
      PROVE  sessions'[pair[1]] = sessions[pair[1]]
  BY PairsSound
<1>5. TokenMap' = TokenMap /\ MediaMap' = MediaMap /\ SocketMap' = SocketMap
  <2>1. AllPairs' = AllPairs
    BY <1>3
  <2> QED
    BY <1>4, <2>1 DEF TokenMap, MediaMap, SocketMap, Token, State
<1>6. UsesMap' = UsesMap
  <2> DEFINE more == sessions'
  <2>1. /\ DOMAIN more = DOMAIN sessions \cup {s}
        /\ s \notin DOMAIN sessions => more[s].media = NULL
        /\ \A other \in DOMAIN sessions : more[other].media = sessions[other].media
    BY <1>1
  <2> HIDE DEF more
  <2>2. Uses(more, describing) = Uses(sessions, describing)
    BY <2>1, NoSessionMore
  <2> QED
    BY <2>2 DEF UsesMap, more
<1> QED
  BY <1>2, <1>5, <1>6

\* A SETUP that is refused keeps the invariant.
LEMMA SetupRefusedKeepsIInv ==
  ASSUME IInv, NEW c \in Connections, NEW s \in SessionIds, NEW track,
         SetupRefused(c, s, track)
  PROVE  IInv'
<1> DEFINE session == IF s \in DOMAIN sessions THEN sessions[s] ELSE NewSession
           first == session.media = NULL
<1>1. PICK exists \in FileMayExist :
         LET found == Found(first, exists)
         IN  /\ fServerMediaSessions' = found.sms
             /\ media' = found.media
             /\ sessions' = With(sessions, s, session)
  BY DEF SetupRefused
<1>2. /\ MayLookUp(first) /\ first \in BOOLEAN
      /\ UNCHANGED <<program, connections, streamVars, fTCPStreamingDatabase,
                     describing, callback, stale>>
  BY DEF SetupRefused
<1> DEFINE found == Found(first, exists)
           sms == found.sms
           all == found.media
<1>3. sessions' = With(sessions, s, session) /\ fServerMediaSessions' = sms /\ media' = all
  BY <1>1
<1>4. /\ DOMAIN sessions' = DOMAIN sessions \cup {s}
      /\ \A other \in DOMAIN sessions : sessions'[other] = sessions[other]
      /\ s \notin DOMAIN sessions => sessions'[s] = NewSession
  BY <1>3 DEF With
<1>5. /\ TokenMap' = TokenMap /\ MediaMap' = MediaMap /\ SocketMap' = SocketMap
      /\ SessionsSound' /\ UsesMap' = UsesMap
  BY <1>2, <1>4, NewSessionSound DEF IInv
<1> HIDE DEF first
<1>6. /\ MediaSound(all, sms, UsesMap)
      /\ \A x \in DOMAIN streams :
            all[streams[x].media].described = media[streams[x].media].described
  BY <1>2, FoundForStreams
<1> HIDE DEF found, sms, all
<1>7. LiveStreamIsFed'
  BY <1>2, <1>3, <1>6 DEF IInv, LiveStreamIsFed, streamVars
<1>8. Others' /\ NotedAreConnected'
  BY <1>2 DEF IInv, Others, NotedAreConnected, Tracks
<1> QED
  BY <1>2, <1>3, <1>5, <1>6, <1>7, <1>8, Sound DEF IInv, streamVars

-----------------------------------------------------------------------------
(***************************************************************************)
(* Setting up a track.                                                     *)
(***************************************************************************)

\* There is room for a stream of a track that refers to none: every stream is
\* referred to by another track, and the sessions have MaxStreams tracks at most.
LEMMA RoomForStream ==
  ASSUME SessionsSound, NEW s \in SessionIds, NEW track \in Tracks, MayHave(s),
         NEW all, NEW last, NEW tokens, NEW of, StreamsSound(all, last, tokens, of),
         DOMAIN tokens \subseteq AllPairs,
         <<s, track>> \in DOMAIN tokens => tokens[<<s, track>>] = NULL
  PROVE  DOMAIN all # Streams
<1> SUFFICES ASSUME DOMAIN all = Streams
             PROVE  FALSE
  OBVIOUS
<1> DEFINE ids == {s} \cup DOMAIN sessions
           pair == <<s, track>>
           P == (ids \X Tracks) \ {pair}
           f == [x \in Streams |-> CHOOSE p \in DOMAIN tokens : tokens[p] = x]
<1>1. IsFiniteSet(ids)
  BY FS_AddElement DEF SessionsSound
<1>2. /\ IsFiniteSet(ids \X Tracks) /\ Cardinality(ids \X Tracks) \in Nat
      /\ Cardinality(ids \X Tracks) <= MaxStreams
  BY <1>1, PairsFinite, FS_CardinalityType DEF MayHave
<1>3. pair \in ids \X Tracks
  OBVIOUS
<1>4. IsFiniteSet(P) /\ Cardinality(P) = Cardinality(ids \X Tracks) - 1
  <2> DEFINE Q == ids \X Tracks
  <2> HIDE DEF Q, pair
  <2> QED
    BY <1>2, <1>3, FS_RemoveElement DEF Q
<1>5. MaxStreams \in Nat /\ NULL \notin Streams
  BY ServerAssumption DEF Streams
<1>6. IsFiniteSet(Streams) /\ Cardinality(Streams) = MaxStreams
  <2>1. IsFiniteSet(1 .. MaxStreams)
        /\ Cardinality(1 .. MaxStreams) = IF 1 > MaxStreams THEN 0 ELSE MaxStreams - 1 + 1
    BY <1>5, FS_Interval
  <2> QED
    BY <1>5, <2>1 DEF Streams
<1>7. ASSUME NEW x \in Streams
      PROVE  f[x] \in P /\ tokens[f[x]] = x
  <2>1. \E p \in DOMAIN tokens : tokens[p] = x
    BY DEF StreamsSound
  <2>2. f[x] \in DOMAIN tokens /\ tokens[f[x]] = x
    BY <2>1
  <2>3. f[x] \in AllPairs /\ f[x] # pair
    BY <1>5, <2>2
  <2>4. /\ f[x] = <<f[x][1], f[x][2]>> /\ f[x][1] \in DOMAIN sessions
        /\ f[x][2] \in Tracks
    BY <2>3, PairsSound
  <2> HIDE DEF f
  <2> QED
    BY <2>2, <2>3, <2>4
<1>8. f \in [Streams -> P] /\ \A x \in Streams : tokens[f[x]] = x
  BY <1>7
<1> HIDE DEF f, P
<1>9. Cardinality(P) < Cardinality(Streams)
  BY <1>2, <1>4, <1>5, <1>6
<1>10. \E x, y \in Streams : x # y /\ f[x] = f[y]
  BY <1>4, <1>6, <1>8, <1>9, FS_PigeonHole
<1> QED
  BY <1>8, <1>10

\* The tracks of a session when it begins, and when one has been set up, and how
\* often the media are referred to once one of them has another session.
NewTracks == [t \in Tracks |-> NewState]
SetUpTracks(tracks, track, y, socket) ==
    [tracks EXCEPT ![track] = [@ EXCEPT !.token = y, !.tcpSocketNum = socket]]
OnceMore(uses, m) == [uses EXCEPT ![m] = @ + 1]

\* What a set-up makes of the track of a session.
LEMMA TrackSetUp ==
  ASSUME NEW tracks \in [Tracks -> TrackState], NEW track \in Tracks,
         NEW y \in Streams, NEW socket \in Sockets \cup {UDP}, tracks[track].subsession
  PROVE  LET new == SetUpTracks(tracks, track, y, socket)
         IN  /\ new \in [Tracks -> TrackState]
             /\ new[track].subsession /\ new[track].token = y
             /\ new[track].tcpSocketNum = socket
             /\ \A t \in Tracks : t # track => new[t] = tracks[t]
<1> DEFINE old == tracks[track]
           ns == [old EXCEPT !.token = y, !.tcpSocketNum = socket]
<1>1. old \in TrackState /\ old.subsession
  OBVIOUS
<1>2. /\ ns \in TrackState /\ ns.subsession = old.subsession /\ ns.token = y
      /\ ns.tcpSocketNum = socket
  <2> HIDE DEF old
  <2> QED
    BY <1>1 DEF TrackState
<1> HIDE DEF ns
<1> DEFINE new == [tracks EXCEPT ![track] = ns]
<1>3. /\ new \in [Tracks -> TrackState] /\ new[track] = ns
      /\ \A t \in Tracks : t # track => new[t] = tracks[t]
  BY <1>2
<1>4. new = SetUpTracks(tracks, track, y, socket)
  BY DEF ns, SetUpTracks
<1> QED
  BY <1>1, <1>2, <1>3, <1>4

\* What sessions refer to, when a track of one is set up with a stream.
LEMMA SetUpSessions ==
  ASSUME SessionsSound, describing \in Seq(Descriptions),
         UNCHANGED <<program, describing>>,
         NEW s \in SessionIds, NEW track \in Tracks, NEW m \in Media,
         NEW y \in Streams, NEW socket \in Sockets \cup {UDP}, NEW isNew \in BOOLEAN,
         isNew <=> s \notin DOMAIN sessions \/ sessions[s].media = NULL,
         ~isNew => sessions[s].media = m,
         NEW tracks \in [Tracks -> TrackState], NEW new \in [Tracks -> TrackState],
         isNew => tracks = NewTracks,
         ~isNew => tracks = sessions[s].tracks,
         tracks[track].subsession, new[track].subsession, new[track].token = y,
         new[track].tcpSocketNum = socket,
         \A t \in Tracks : t # track => new[t] = tracks[t],
         DOMAIN sessions' = DOMAIN sessions \cup {s},
         sessions'[s] = [media |-> m, tracks |-> new],
         \A other \in DOMAIN sessions : other # s => sessions'[other] = sessions[other]
  PROVE  /\ SessionsSound' /\ IsFiniteSet(AllPairs')
         /\ <<s, track>> \in AllPairs' /\ AllPairs \subseteq AllPairs'
         /\ \A t : <<s, t>> \in AllPairs => ~isNew
         /\ ~isNew => <<s, track>> \in AllPairs
         /\ TokenMap'[<<s, track>>] = y /\ MediaMap'[<<s, track>>] = m
         /\ SocketMap'[<<s, track>>] = socket
         /\ \A pair \in AllPairs' : pair # <<s, track>> =>
               IF pair \in AllPairs
               THEN /\ TokenMap'[pair] = TokenMap[pair]
                    /\ MediaMap'[pair] = MediaMap[pair]
                    /\ SocketMap'[pair] = SocketMap[pair]
               ELSE TokenMap'[pair] = NULL /\ SocketMap'[pair] = UDP
         /\ UsesMap' = IF isNew THEN OnceMore(UsesMap, m) ELSE UsesMap
         /\ ~isNew => State(<<s, track>>).tcpSocketNum \in Sockets \cup {UDP}
<1>1. NULL \notin Streams /\ NULL \notin Media /\ NULL \notin SessionIds
  BY ServerAssumption DEF Streams, Media
<1>2. /\ sessions'[s].media = m /\ sessions'[s].tracks = new
      /\ sessions'[s] \in [media : Media \cup {NULL},
                           tracks : {<<>>} \cup [Tracks -> TrackState]]
  OBVIOUS
<1>3. SessionsSound'
  <2>1. IsFiniteSet(DOMAIN sessions') /\ DOMAIN sessions' \subseteq SessionIds
    BY <1>2, FS_AddElement DEF SessionsSound
  <2>2. \A other \in DOMAIN sessions' :
           /\ sessions'[other] \in [media : Media \cup {NULL},
                                    tracks : {<<>>} \cup [Tracks -> TrackState]]
           /\ sessions'[other].media = NULL => sessions'[other].tracks = <<>>
           /\ sessions'[other].media # NULL
                  => sessions'[other].tracks \in [Tracks -> TrackState]
    BY <1>1, <1>2 DEF SessionsSound
  <2>3. Tracks' = Tracks /\ TrackState' = TrackState
    BY DEF TrackState, Tracks
  <2> QED
    BY <2>1, <2>2, <2>3 DEF SessionsSound
<1>4. ASSUME NEW t
      PROVE  /\ <<s, t>> \in AllPairs => ~isNew /\ t \in Tracks
             /\ <<s, t>> \in AllPairs' <=> t \in Tracks /\ new[t].subsession
             /\ ~isNew => (<<s, t>> \in AllPairs <=> t \in Tracks /\ tracks[t].subsession)
  <2>1. <<s, t>> \in AllPairs => ~isNew /\ t \in Tracks
    BY <1>1, PairsSound
  <2>2. <<s, t>> \in AllPairs' <=> t \in Tracks /\ new[t].subsession
    <3>1. s \in DOMAIN sessions' /\ DOMAIN sessions'[s].tracks = Tracks
      BY <1>2
    <3>2. <<s, t>> \in AllPairs' <=> /\ s \in DOMAIN sessions'
                                     /\ t \in DOMAIN sessions'[s].tracks
                                     /\ sessions'[s].tracks[t].subsession
      BY PairsOf
    <3> QED
      BY <1>2, <3>1, <3>2
  <2>3. ~isNew => (<<s, t>> \in AllPairs <=> t \in Tracks /\ tracks[t].subsession)
    <3>1. ~isNew => s \in DOMAIN sessions /\ DOMAIN sessions[s].tracks = Tracks
      OBVIOUS
    <3>2. <<s, t>> \in AllPairs <=> /\ s \in DOMAIN sessions
                                    /\ t \in DOMAIN sessions[s].tracks
                                    /\ sessions[s].tracks[t].subsession
      BY PairsOf
    <3> QED
      BY <3>1, <3>2
  <2> QED
    BY <2>1, <2>2, <2>3
<1>5. ASSUME NEW other, NEW t, other # s
      PROVE  <<other, t>> \in AllPairs' <=> <<other, t>> \in AllPairs
  BY <1>2, <1>5, PairsOf
<1>6. ASSUME NEW t
      PROVE  <<s, t>> \in AllPairs => <<s, t>> \in AllPairs'
  BY <1>4
<1>7. ASSUME NEW pair \in AllPairs
       PROVE  pair \in AllPairs'
  <2>1. pair = <<pair[1], pair[2]>>
    BY PairsOf
  <2> QED
    BY <1>5, <1>6, <2>1
<1>8. <<s, track>> \in AllPairs' /\ (~isNew => <<s, track>> \in AllPairs)
  BY <1>4
<1>9. ASSUME NEW pair \in AllPairs'
       PROVE  /\ TokenMap'[pair] = sessions'[pair[1]].tracks[pair[2]].token
              /\ MediaMap'[pair] = sessions'[pair[1]].media
              /\ SocketMap'[pair] = sessions'[pair[1]].tracks[pair[2]].tcpSocketNum
  BY DEF TokenMap, MediaMap, SocketMap, Token, State
<1>10. ASSUME NEW pair \in AllPairs
       PROVE  /\ TokenMap[pair] = sessions[pair[1]].tracks[pair[2]].token
              /\ MediaMap[pair] = sessions[pair[1]].media
              /\ SocketMap[pair] = sessions[pair[1]].tracks[pair[2]].tcpSocketNum
  BY DEF TokenMap, MediaMap, SocketMap, Token, State
<1>11. /\ TokenMap'[<<s, track>>] = y /\ MediaMap'[<<s, track>>] = m
       /\ SocketMap'[<<s, track>>] = socket
  <2> DEFINE pair == <<s, track>>
  <2>1. pair \in AllPairs' /\ pair[1] = s /\ pair[2] = track
    BY <1>8
  <2> HIDE DEF pair
  <2> QED
    BY <1>2, <1>9, <2>1 DEF pair
<1>12. ASSUME NEW pair \in AllPairs', pair # <<s, track>>
       PROVE  IF pair \in AllPairs
              THEN /\ TokenMap'[pair] = TokenMap[pair]
                   /\ MediaMap'[pair] = MediaMap[pair]
                   /\ SocketMap'[pair] = SocketMap[pair]
              ELSE TokenMap'[pair] = NULL /\ SocketMap'[pair] = UDP
  <2>1. pair = <<pair[1], pair[2]>>
    BY PairsOf
  <2>2. CASE pair[1] # s
    <3>1. pair \in AllPairs
      BY <1>5, <2>1, <2>2
    <3>2. pair[1] \in DOMAIN sessions
      BY <3>1, PairsSound
    <3> QED
      BY <1>2, <1>9, <1>10, <2>2, <3>1, <3>2
  <2>3. CASE pair[1] = s
    <3>1. pair[2] # track /\ pair[2] \in Tracks /\ new[pair[2]].subsession
      BY <1>4, <1>12, <2>1, <2>3
    <3>2. new[pair[2]] = tracks[pair[2]]
      BY <3>1
    <3>3. CASE isNew
      <4>1. pair \notin AllPairs
        BY <1>4, <2>1, <2>3, <3>3
      <4>2. new[pair[2]] = NewState
        BY <3>1, <3>2, <3>3 DEF NewTracks
      <4>3. NewState.token = NULL /\ NewState.tcpSocketNum = UDP
        BY DEF NewState
      <4> QED
        BY <1>2, <1>9, <2>3, <4>1, <4>2, <4>3
    <3>4. CASE ~isNew
      <4>1. pair \in AllPairs
        BY <1>4, <2>1, <2>3, <3>1, <3>2, <3>4
      <4>2. new[pair[2]] = sessions[s].tracks[pair[2]]
        BY <3>2, <3>4
      <4> QED
        BY <1>2, <1>9, <1>10, <2>3, <3>4, <4>1, <4>2
    <3> QED
      BY <3>3, <3>4
  <2> QED
    BY <2>2, <2>3
<1>13. IsFiniteSet(AllPairs')
  <2> DEFINE ids == DOMAIN sessions'
  <2>1. IsFiniteSet(ids)
    BY <1>3 DEF SessionsSound
  <2>2. AllPairs' \subseteq ids \X Tracks
    <3>1. ASSUME NEW pair \in AllPairs'
          PROVE  pair \in ids \X Tracks
      <4>1. pair = <<pair[1], pair[2]>>
        BY PairsOf
      <4>2. pair[1] \in ids
        BY <4>1, PairsOf
      <4>3. pair[2] \in Tracks
        <5>1. CASE pair[1] = s
          BY <1>4, <4>1, <5>1
        <5>2. CASE pair[1] # s
          <6>1. pair \in AllPairs
            BY <1>5, <4>1, <5>2
          <6> QED
            BY <6>1, PairsSound
        <5> QED
          BY <5>1, <5>2
      <4> QED
        BY <4>1, <4>2, <4>3
    <3> QED
      BY <3>1
  <2> DEFINE pairs == AllPairs'
  <2> HIDE DEF ids, pairs
  <2>3. IsFiniteSet(pairs)
    BY <2>1, <2>2, PairsFinite DEF pairs
  <2> QED
    BY <2>3 DEF pairs
<1>14. UsesMap' = IF isNew THEN OnceMore(UsesMap, m) ELSE UsesMap
  <2> DEFINE more == sessions'
  <2>1. /\ DOMAIN more = DOMAIN sessions \cup {s} /\ more[s].media = m
        /\ \A other \in DOMAIN sessions : other # s => more[other].media = sessions[other].media
    BY <1>2
  <2>2. UsesMap' = Uses(more, describing) /\ IsFiniteSet(DOMAIN sessions)
    BY DEF UsesMap, SessionsSound
  <2> HIDE DEF more
  <2>3. CASE isNew
    <3>1. s \in DOMAIN sessions => sessions[s].media = NULL
      BY <2>3
    <3>2. Uses(more, describing) = [Uses(sessions, describing) EXCEPT ![m] = @ + 1]
      BY <2>1, <2>2, <3>1, OneSessionMore
    <3> QED
      BY <2>2, <2>3, <3>2 DEF UsesMap, OnceMore
  <2>4. CASE ~isNew
    <3>1. /\ s \in DOMAIN sessions
          /\ \A other \in DOMAIN sessions : more[other].media = sessions[other].media
      BY <2>1, <2>4
    <3>2. Uses(more, describing) = Uses(sessions, describing)
      BY <2>1, <3>1, NoSessionMore
    <3> QED
      BY <2>2, <2>4, <3>2 DEF UsesMap
  <2> QED
    BY <2>3, <2>4
<1>15. ~isNew => State(<<s, track>>).tcpSocketNum \in Sockets \cup {UDP}
  BY <1>8, PairsSound
<1> QED
  BY <1>3, <1>4, <1>7, <1>8, <1>11, <1>12, <1>13, <1>14, <1>15

\* The stream that a track is given is one of those there may be.
LEMMA StreamIsOne ==
  ASSUME NEW left, NEW T, NEW of, StreamsSound(left.streams, left.last, T, of),
         NEW m \in Media, NEW track \in Tracks, DOMAIN left.streams # Streams
  PROVE  Stream(left, m, track).token \in Streams
<1> DEFINE last == left.last[<<m, track>>]
           used == DOMAIN left.streams
           new == Fresh(Streams, used)
<1>1. Stream(left, m, track).token \in {last, new}
      /\ (Stream(left, m, track).token = last => last # NULL \/ last = new)
  BY DEF Stream
<1>2. last \in Streams \cup {NULL}
  BY TrackNumbers DEF StreamsSound, Keys
<1>3. used \subseteq Streams /\ MaxStreams \in Nat /\ NULL \notin Streams
  BY ServerAssumption DEF StreamsSound, Streams
<1>4. ~ (1 .. MaxStreams \subseteq used)
  BY <1>3 DEF Streams
<1> HIDE DEF used, last
<1>5. new \in Streams
  BY <1>3, <1>4, FreshIsFree DEF Streams
<1> QED
  BY <1>1, <1>2, <1>5

\* SETUP keeps the invariant, and other sessions are sent what they were.
LEMMA SetupKeepsIInv ==
  ASSUME IInv, NEW c \in Connections, NEW s \in SessionIds, NEW track,
         NEW overTCP \in BOOLEAN, Setup(c, s, track, overTCP)
  PROVE  /\ IInv'
         /\ \A x \in DOMAIN streams : \A target \in streams[x].targets :
               \/ target.session = s
               \/ x \in DOMAIN streams' /\ target \in streams'[x].targets
<1> DEFINE isNew == s \notin DOMAIN sessions \/ sessions[s].media = NULL
           pair == <<s, track>>
           again == ~isNew /\ Token(pair) # NULL
           P == IF again THEN {pair} ELSE {}
           left == Deleted(P)
           socket == IF overTCP THEN connections[c].socket
                     ELSE IF isNew THEN UDP ELSE State(pair).tcpSocketNum
           tracks == IF isNew THEN [t \in Tracks |-> NewState] ELSE sessions[s].tracks
           record == [socket |-> connections[c].socket, session |-> s, track |-> track]
           destination == [session |-> s, track |-> track, socket |-> socket]
<1>1. /\ MayLookUp(isNew) /\ MayHave(s) /\ connections[c].socket # NULL
      /\ track \in Tracks /\ UNCHANGED <<program, connections, describing>>
      /\ fTCPStreamingDatabase' =
            (IF again THEN Unnoted({pair}) ELSE fTCPStreamingDatabase)
            \cup (IF overTCP THEN {record} ELSE {})
      /\ stale' = IF overTCP \/ isNew \/ State(pair).tcpSocketNum = UDP
                  THEN stale \ {pair} ELSE stale \cup {pair}
  BY SMTT(30) DEF Setup, MayRequest
<1>2. PICK exists \in FileMayExist :
         LET found == Found(isNew, exists)
             stream == Stream(left, found.sms, track)
         IN  /\ found.sms # NULL /\ (~isNew => sessions[s].media = found.sms)
             /\ tracks[track].subsession
             /\ fServerMediaSessions' = found.sms
             /\ media' = IF isNew THEN Referenced(found.media, found.sms)
                         ELSE found.media
             /\ sessions' = With(sessions, s,
                    [media |-> found.sms,
                     tracks |-> [tracks EXCEPT ![track] =
                        [@ EXCEPT !.token = stream.token, !.tcpSocketNum = socket]]])
             /\ streams' = stream.all
             /\ fLastStreamToken' = [left.last EXCEPT
                    ![<<found.sms, track>>] = stream.token]
             /\ destinations' = left.destinations \cup {destination}
             /\ callback' = IF program = "live" /\ stream.token \notin DOMAIN left.streams
                            THEN stream.token ELSE left.callback
  BY DEF Setup
<1> DEFINE found == Found(isNew, exists)
           sms == found.sms
           all == found.media
           stream == Stream(left, sms, track)
           y == stream.token
           new == SetUpTracks(tracks, track, y, socket)
           T1 == Without(TokenMap, P)
           M1 == Without(MediaMap, P)
           K1 == Without(SocketMap, P)
<1>3. /\ sms # NULL /\ (~isNew => sessions[s].media = sms) /\ tracks[track].subsession
      /\ fServerMediaSessions' = sms
      /\ media' = IF isNew THEN Referenced(all, sms) ELSE all
      /\ streams' = stream.all
      /\ fLastStreamToken' = [left.last EXCEPT ![<<sms, track>>] = y]
      /\ destinations' = left.destinations \cup {destination}
      /\ callback' = IF program = "live" /\ y \notin DOMAIN left.streams
                     THEN y ELSE left.callback
  BY <1>2
<1>4. sessions' = With(sessions, s, [media |-> sms, tracks |-> new])
  BY <1>2 DEF SetUpTracks
<1>5. /\ SessionsSound /\ describing \in Seq(Descriptions)
      /\ StreamsSound(streams, fLastStreamToken, TokenMap, MediaMap)
      /\ DestinationsSound(streams, destinations, TokenMap, SocketMap)
      /\ NotesSound(destinations, fTCPStreamingDatabase, TokenMap, SocketMap, stale)
      /\ connections \in [Connections -> [socket : Sockets \cup {NULL}, closed : BOOLEAN]]
      /\ callback \in Streams \cup {NULL} /\ stale \subseteq SessionIds \X Tracks
  BY DEF IInv, Others
<1>6. NULL \notin Streams /\ NULL \notin Media /\ UDP \notin Sockets /\ isNew \in BOOLEAN
  BY ServerAssumption DEF Streams, Media
<1>7. /\ MediaSound(all, sms, UsesMap)
      /\ \A x \in DOMAIN streams :
            /\ streams[x].media \in DOMAIN all
            /\ all[streams[x].media].described = media[streams[x].media].described
            /\ program = "live" => sms = streams[x].media
      /\ sms \in DOMAIN all /\ sms \in Media
  <2> HIDE DEF isNew
  <2>1. /\ MediaSound(all, sms, UsesMap)
        /\ \A x \in DOMAIN streams :
              /\ streams[x].media \in DOMAIN all
              /\ all[streams[x].media].described = media[streams[x].media].described
              /\ program = "live" => sms = streams[x].media
    BY <1>1, <1>6, FoundForStreams
  <2> HIDE DEF sms, all
  <2> QED
    BY <1>3, <2>1 DEF MediaSound
<1>8. /\ tracks \in [Tracks -> TrackState]
      /\ ~isNew => pair \in AllPairs /\ State(pair).tcpSocketNum \in Sockets \cup {UDP}
      /\ pair \in AllPairs => ~isNew
  <2>1. NewState \in TrackState
    BY DEF NewState, TrackState
  <2>2. ~isNew => sessions[s].tracks \in [Tracks -> TrackState]
    BY <1>5 DEF SessionsSound
  <2>3. ~isNew => pair \in AllPairs
    BY <1>1, <1>3, <2>2, PairsOf
  <2>4. pair \in AllPairs => ~isNew
    BY <1>5, <1>6, PairsSound
  <2>5. pair \in AllPairs => State(pair).tcpSocketNum \in Sockets \cup {UDP}
    BY <1>5, PairsSound
  <2> QED
    BY <2>1, <2>2, <2>3, <2>4, <2>5
<1>9. /\ P \subseteq AllPairs /\ P \subseteq {pair}
      /\ DOMAIN T1 = AllPairs \ P
      /\ \A p \in DOMAIN T1 : T1[p] = TokenMap[p] /\ M1[p] = MediaMap[p] /\ K1[p] = SocketMap[p]
      /\ pair \in DOMAIN T1 => T1[pair] = NULL
  <2>1. P \subseteq AllPairs /\ P \subseteq {pair}
    BY <1>8
  <2>2. /\ DOMAIN T1 = AllPairs \ P
        /\ \A p \in DOMAIN T1 : /\ T1[p] = TokenMap[p] /\ M1[p] = MediaMap[p]
                                /\ K1[p] = SocketMap[p]
    BY Maps DEF Without
  <2>3. pair \in DOMAIN T1 => T1[pair] = NULL
    BY <1>8, <2>2, Maps
  <2> QED
    BY <2>1, <2>2, <2>3
<1>10. socket \in Sockets \cup {UDP}
  BY <1>1, <1>5, <1>8
<1> HIDE DEF isNew, P, socket, tracks, found, sms, all
<1>11. /\ StreamsSound(left.streams, left.last, T1, M1)
       /\ DestinationsSound(left.streams, left.destinations, T1, K1)
       /\ \A x \in DOMAIN left.streams : /\ x \in DOMAIN streams
                                         /\ x \notin ReferencedByThese(P)
                                         /\ left.streams[x].media = streams[x].media
       /\ \A x \in DOMAIN streams : \A target \in streams[x].targets :
             \/ x \in DOMAIN left.streams /\ target \in left.streams[x].targets
             \/ \E e \in destinations : /\ <<e.session, e.track>> \in P
                                        /\ e.session = target.session
                                        /\ e.socket = target.socket
  BY <1>5, <1>9, DeletedSound
<1>12. /\ left.callback = CallbackLeft(P)
       /\ left.destinations = {d \in destinations : <<d.session, d.track>> \notin P}
  BY DEF Deleted
<1> HIDE DEF left, T1, M1, K1
<1>13. DOMAIN left.streams # Streams
  BY <1>1, <1>5, <1>9, <1>11, RoomForStream
<1>14. y \in Streams
  BY <1>1, <1>7, <1>11, <1>13, StreamIsOne
<1>15. /\ new \in [Tracks -> TrackState] /\ new[track].subsession /\ new[track].token = y
       /\ new[track].tcpSocketNum = socket
       /\ \A t \in Tracks : t # track => new[t] = tracks[t]
  <2> HIDE DEF y
  <2> QED
    BY <1>1, <1>3, <1>8, <1>10, <1>14, TrackSetUp
<1> HIDE DEF new
<1>16. /\ DOMAIN sessions' = DOMAIN sessions \cup {s}
       /\ sessions'[s] = [media |-> sms, tracks |-> new]
       /\ \A other \in DOMAIN sessions : other # s => sessions'[other] = sessions[other]
  <2> DEFINE v == [media |-> sms, tracks |-> new]
  <2>1. sessions' = With(sessions, s, v)
    BY <1>4
  <2> HIDE DEF v
  <2>2. /\ DOMAIN sessions' = DOMAIN sessions \cup {s} /\ sessions'[s] = v
        /\ \A other \in DOMAIN sessions : other # s => sessions'[other] = sessions[other]
    BY <2>1 DEF With
  <2> QED
    BY <2>2 DEF v
<1>17. /\ SessionsSound' /\ IsFiniteSet(AllPairs')
       /\ pair \in AllPairs' /\ AllPairs \subseteq AllPairs'
       /\ TokenMap'[pair] = y /\ MediaMap'[pair] = sms /\ SocketMap'[pair] = socket
       /\ \A p \in AllPairs' : p # pair =>
             IF p \in AllPairs
             THEN /\ TokenMap'[p] = TokenMap[p] /\ MediaMap'[p] = MediaMap[p]
                  /\ SocketMap'[p] = SocketMap[p]
             ELSE TokenMap'[p] = NULL /\ SocketMap'[p] = UDP
       /\ UsesMap' = IF isNew THEN OnceMore(UsesMap, sms) ELSE UsesMap
  <2>1. /\ isNew <=> s \notin DOMAIN sessions \/ sessions[s].media = NULL
        /\ isNew => tracks = NewTracks
        /\ ~isNew => tracks = sessions[s].tracks
    BY DEF isNew, tracks, NewTracks
  <2>2. /\ UNCHANGED <<program, describing>> /\ track \in Tracks
        /\ ~isNew => sessions[s].media = sms
        /\ tracks[track].subsession /\ tracks \in [Tracks -> TrackState]
    BY <1>1, <1>3, <1>8
  <2> HIDE DEF y
  <2>3. /\ SessionsSound' /\ IsFiniteSet(AllPairs')
        /\ <<s, track>> \in AllPairs' /\ AllPairs \subseteq AllPairs'
        /\ \A t : <<s, t>> \in AllPairs => ~isNew
        /\ ~isNew => <<s, track>> \in AllPairs
        /\ TokenMap'[<<s, track>>] = y /\ MediaMap'[<<s, track>>] = sms
        /\ SocketMap'[<<s, track>>] = socket
        /\ \A p \in AllPairs' : p # <<s, track>> =>
              IF p \in AllPairs
              THEN /\ TokenMap'[p] = TokenMap[p]
                   /\ MediaMap'[p] = MediaMap[p]
                   /\ SocketMap'[p] = SocketMap[p]
              ELSE TokenMap'[p] = NULL /\ SocketMap'[p] = UDP
        /\ UsesMap' = IF isNew THEN OnceMore(UsesMap, sms) ELSE UsesMap
        /\ ~isNew => State(<<s, track>>).tcpSocketNum \in Sockets \cup {UDP}
    BY SMTT(30), <1>5, <1>6, <1>7, <1>10, <1>14, <1>15, <1>16, <2>1, <2>2, SetUpSessions
  <2> QED
    BY <2>3
<1>18. DOMAIN TokenMap' = AllPairs' /\ DOMAIN SocketMap' = AllPairs'
  BY DEF TokenMap, SocketMap
<1> DEFINE T2 == TokenMap'
           M2 == MediaMap'
           K2 == SocketMap'
<1> HIDE DEF T2, M2, K2
<1>19. ASSUME NEW p \in AllPairs', p # pair
       PROVE  IF p \in DOMAIN T1 THEN T2[p] = T1[p] /\ M2[p] = M1[p] /\ K2[p] = K1[p]
              ELSE T2[p] = NULL /\ K2[p] = UDP
  <2>1. p \in AllPairs <=> p \in DOMAIN T1
    BY <1>9, <1>19
  <2> QED
    BY <1>9, <1>17, <1>19, <2>1 DEF T2, M2, K2
<1>20. DOMAIN T1 \subseteq AllPairs' /\ T2[pair] = y /\ M2[pair] = sms /\ K2[pair] = socket
       /\ DOMAIN T2 = AllPairs'
  BY <1>9, <1>17, <1>18 DEF T2, M2, K2
<1>21. SetUp(T1, T2, pair, y) /\ IsFiniteSet(DOMAIN T2)
  BY <1>9, <1>17, <1>19, <1>20 DEF SetUp
<1>22. /\ StreamsSound(streams', fLastStreamToken', T2, M2)
       /\ DOMAIN streams' = DOMAIN left.streams \cup {y}
       /\ \A x \in DOMAIN left.streams : /\ streams'[x].targets = left.streams[x].targets
                                         /\ streams'[x].media = left.streams[x].media
       /\ streams'[y].media = sms
       /\ y \notin DOMAIN left.streams => streams'[y].targets = {}
  <2>1. \A p \in DOMAIN T1 : p # pair => M2[p] = M1[p]
    BY <1>19, <1>20
  <2>2. pair[2] = track /\ M2[pair] = sms /\ track \in Tracks /\ sms \in Media
    BY <1>1, <1>7, <1>20
  <2> HIDE DEF pair
  <2>3. MaySetUp(left, T1, M1, T2, M2, pair, sms, track)
    BY <1>11, <1>13, <1>21, <2>1, <2>2 DEF MaySetUp
  <2>4. /\ StreamsSound(stream.all, LastSetUp(left.last, sms, track, y), T2, M2)
        /\ DOMAIN stream.all = DOMAIN left.streams \cup {y}
        /\ \A x \in DOMAIN left.streams :
              /\ stream.all[x].targets = left.streams[x].targets
              /\ stream.all[x].media = left.streams[x].media
        /\ stream.all[y].media = sms
        /\ y \notin DOMAIN left.streams => stream.all[y].targets = {}
    <3>1. IsSetUp(left, T2, M2, sms, track)
      BY <2>2, <2>3, StreamSound
    <3> QED
      BY <3>1 DEF IsSetUp
  <2>5. fLastStreamToken' = LastSetUp(left.last, sms, track, y) /\ streams' = stream.all
    BY <1>3 DEF LastSetUp
  <2> HIDE DEF stream, y
  <2> QED
    BY <2>4, <2>5
<1> HIDE DEF stream, y
<1>23. \A d \in left.destinations :
          LET own == <<d.session, d.track>>
          IN  /\ d \in destinations /\ own # pair /\ own \in DOMAIN T1 /\ own \in DOMAIN T2
              /\ T1[own] # NULL /\ T2[own] = T1[own] /\ K2[own] = K1[own]
              /\ d.socket = K1[own]
  <2> TAKE d \in left.destinations
  <2> DEFINE own == <<d.session, d.track>>
  <2>1. own \in DOMAIN T1 /\ T1[own] # NULL /\ d.socket = K1[own]
    BY <1>11 DEF DestinationsSound
  <2>2. d \in destinations
    BY <1>12
  <2> HIDE DEF own, pair
  <2>3. own # pair
    BY <1>9, <2>1
  <2>4. own \in AllPairs'
    BY <1>20, <2>1
  <2>5. T2[own] = T1[own] /\ K2[own] = K1[own]
    BY <1>19, <2>1, <2>3, <2>4
  <2> QED
    BY <1>20, <2>1, <2>2, <2>3, <2>4, <2>5 DEF own
<1>24. /\ destinations' = left.destinations \cup {destination}
       /\ destination \in [session : SessionIds, track : Tracks, socket : Sockets \cup {UDP}]
       /\ <<destination.session, destination.track>> = pair
       /\ destination.socket = socket /\ destination.session = s
       /\ destination.track = track
  BY <1>1, <1>3, <1>10
<1>25. destinations' \subseteq [session : SessionIds, track : Tracks,
                                socket : Sockets \cup {UDP}]
  BY <1>11, <1>24 DEF DestinationsSound
<1> HIDE DEF destination
<1>26. DestinationsSound(streams', destinations', T2, K2)
  <2>1. ASSUME NEW d \in destinations'
        PROVE  /\ <<d.session, d.track>> \in DOMAIN T2
               /\ T2[<<d.session, d.track>>] # NULL
               /\ d.socket = K2[<<d.session, d.track>>]
    <3>1. CASE d \in left.destinations
      BY <1>23, <3>1
    <3>2. CASE d = destination
      <4> HIDE DEF pair
      <4>1. y # NULL /\ pair \in DOMAIN T2
        BY <1>6, <1>14, <1>17, <1>20
      <4> QED
        BY <1>20, <1>24, <3>2, <4>1
    <3> QED
      BY <1>24, <3>1, <3>2
  <2>2. ASSUME NEW x \in DOMAIN streams', NEW target \in streams'[x].targets
        PROVE  \E d \in destinations' :
                  /\ d.session = target.session /\ d.socket = target.socket
                  /\ T2[<<d.session, d.track>>] = x
    <3>1. x \in DOMAIN left.streams /\ target \in left.streams[x].targets
      BY <1>22, <2>2
    <3>2. PICK d \in left.destinations :
             /\ d.session = target.session /\ d.socket = target.socket
             /\ T1[<<d.session, d.track>>] = x
      BY <1>11, <3>1 DEF DestinationsSound
    <3>3. d \in destinations'
      BY <1>24
    <3>4. T2[<<d.session, d.track>>] = x
      BY <1>23, <3>2
    <3> QED
      BY <3>2, <3>3, <3>4
  <2> QED
    BY <1>25, <2>1, <2>2 DEF DestinationsSound
<1> DEFINE kept == IF again THEN Unnoted({pair}) ELSE fTCPStreamingDatabase
<1>27. /\ fTCPStreamingDatabase' = kept \cup (IF overTCP THEN {record} ELSE {})
       /\ overTCP => record \in [socket : Sockets, session : SessionIds, track : Tracks]
       /\ record.socket = connections[c].socket /\ record.session = s
       /\ record.track = track
       /\ overTCP => socket = record.socket
  BY <1>1, <1>5 DEF socket
<1>28. /\ again => pair \in AllPairs /\ ~isNew
       /\ ~again /\ pair \in AllPairs => TokenMap[pair] = NULL
  <2>1. pair \in AllPairs => TokenMap[pair] = Token(pair)
    BY Maps
  <2> HIDE DEF pair
  <2> QED
    BY <1>8, <2>1
<1>29. ASSUME NEW note \in kept
       PROVE  /\ note \in fTCPStreamingDatabase
              /\ <<note.session, note.track>> # pair
  <2> DEFINE own == <<note.session, note.track>>
  <2>1. CASE again
    <3>1. {pair} \subseteq AllPairs
      BY <1>28, <2>1
    <3>2. note \in fTCPStreamingDatabase /\ own \notin {pair}
      BY <1>5, <1>29, <2>1, <3>1, UnnotedAre
    <3> QED
      BY <3>2
  <2>2. CASE ~again
    <3>1. note \in fTCPStreamingDatabase
      BY <1>29, <2>2
    <3>2. /\ own \in AllPairs /\ SocketMap[own] = note.socket /\ note.socket \in Sockets
          /\ \A p \in AllPairs : TokenMap[p] = NULL => SocketMap[p] = UDP
      BY <1>5, <3>1, Maps DEF NotesSound
    <3> HIDE DEF own, pair
    <3>3. own # pair
      BY <1>6, <1>28, <2>2, <3>2
    <3> QED
      BY <3>1, <3>3 DEF own
  <2> QED
    BY <2>1, <2>2
<1>30. ASSUME NEW note \in fTCPStreamingDatabase, <<note.session, note.track>> # pair
       PROVE  note \in kept
  <2>1. CASE again
    <3>1. {pair} \subseteq AllPairs
      BY <1>28, <2>1
    <3>2. <<note.session, note.track>> \notin {pair}
      BY <1>30
    <3>3. note \in Unnoted({pair})
      BY <1>5, <3>1, <3>2, UnnotedAre
    <3> QED
      BY <2>1, <3>3
  <2> QED
    BY <2>1
<1>31. /\ stale' \subseteq SessionIds \X Tracks
       /\ \A p \in stale : p # pair => p \in stale'
       /\ overTCP \/ socket = UDP \/ pair \in stale'
  <2>1. pair \in SessionIds \X Tracks
    BY <1>1
  <2>2. ~overTCP /\ ~isNew => socket = State(pair).tcpSocketNum
    BY DEF socket
  <2>3. ~overTCP /\ isNew => socket = UDP
    BY DEF socket
  <2> HIDE DEF pair
  <2> QED
    BY <1>1, <1>5, <2>1, <2>2, <2>3
<1> HIDE DEF kept, record
<1>32. NotesSound(destinations', fTCPStreamingDatabase', T2, K2, stale')
  <2>1. fTCPStreamingDatabase' \subseteq [socket : Sockets, session : SessionIds,
                                          track : Tracks]
    <3>1. \A note \in kept : note \in [socket : Sockets, session : SessionIds,
                                       track : Tracks]
      BY <1>5, <1>29 DEF NotesSound
    <3> QED
      BY <1>27, <3>1
  <2>2. ASSUME NEW d \in destinations'
        PROVE  \/ d.socket = UDP \/ <<d.session, d.track>> \in stale'
               \/ [socket |-> d.socket, session |-> d.session,
                   track |-> d.track] \in fTCPStreamingDatabase'
    <3> DEFINE own == <<d.session, d.track>>
               note == [socket |-> d.socket, session |-> d.session, track |-> d.track]
    <3>1. CASE d \in left.destinations
      <4>1. d \in destinations /\ own # pair
        BY <1>23, <3>1
      <4>2. d.socket = UDP \/ own \in stale \/ note \in fTCPStreamingDatabase
        BY <1>5, <4>1 DEF NotesSound
      <4>3. <<note.session, note.track>> = own
        OBVIOUS
      <4>4. own \in stale => own \in stale'
        <5> HIDE DEF own
        <5> QED
          BY <1>31, <4>1
      <4>5. note \in fTCPStreamingDatabase => note \in fTCPStreamingDatabase'
        <5> HIDE DEF own, note, pair
        <5> QED
          BY <1>27, <1>30, <4>1, <4>3
      <4> QED
        BY <4>2, <4>4, <4>5
    <3>2. CASE d = destination
      <4>1. own = pair /\ d.socket = socket
        BY <1>24, <3>2
      <4>2. CASE overTCP
        <5>1. note = record
          BY <1>24, <1>27, <3>2, <4>2 DEF record
        <5> QED
          BY <1>27, <4>2, <5>1
      <4>3. CASE ~overTCP
        BY <1>31, <4>1, <4>3
      <4> QED
        BY <4>2, <4>3
    <3> QED
      BY <1>24, <3>1, <3>2
  <2>3. ASSUME NEW note \in fTCPStreamingDatabase'
        PROVE  /\ <<note.session, note.track>> \in DOMAIN T2
               /\ K2[<<note.session, note.track>>] = note.socket
    <3> DEFINE own == <<note.session, note.track>>
    <3>1. CASE note \in kept
      <4>1. note \in fTCPStreamingDatabase /\ own # pair
        BY <1>29, <3>1
      <4>2. own \in AllPairs /\ SocketMap[own] = note.socket
        BY <1>5, <4>1, Maps DEF NotesSound
      <4> HIDE DEF own, pair
      <4>3. own \in DOMAIN T1 /\ K1[own] = note.socket
        BY <1>9, <4>1, <4>2
      <4>4. own \in AllPairs' /\ own \in DOMAIN T2
        BY <1>20, <4>3
      <4>5. K2[own] = note.socket
        BY <1>19, <4>1, <4>3, <4>4
      <4> QED
        BY <4>4, <4>5 DEF own
    <3>2. CASE overTCP /\ note = record
      <4>1. own = pair /\ note.socket = socket
        BY <1>27, <3>2
      <4>2. pair \in DOMAIN T2
        BY <1>17, <1>20
      <4> HIDE DEF pair
      <4> QED
        BY <1>20, <4>1, <4>2
    <3> QED
      BY <1>27, <3>1, <3>2
  <2>4. ASSUME NEW p \in DOMAIN T2, T2[p] = NULL
        PROVE  K2[p] = UDP
    <3> HIDE DEF pair
    <3>1. p # pair
      BY <1>6, <1>14, <1>20, <2>4
    <3>2. p \in AllPairs'
      BY <1>20
    <3>3. CASE p \in DOMAIN T1
      <4>1. T1[p] = NULL /\ K2[p] = K1[p]
        BY <1>19, <2>4, <3>1, <3>2, <3>3
      <4>2. p \in AllPairs /\ TokenMap[p] = NULL /\ K1[p] = SocketMap[p]
        BY <1>9, <3>3, <4>1
      <4> QED
        BY <1>5, <4>1, <4>2, Maps DEF NotesSound
    <3>4. CASE p \notin DOMAIN T1
      BY <1>19, <3>1, <3>2, <3>4
    <3> QED
      BY <3>3, <3>4
  <2> QED
    BY <2>1, <2>2, <2>3, <2>4 DEF NotesSound
<1>33. /\ MediaSound(media', fServerMediaSessions', UsesMap')
       /\ \A m \in DOMAIN all : media'[m].described = all[m].described
  <2> DEFINE u == UsesMap
             u2 == UsesMap'
  <2>1. MediaSound(all, sms, u) /\ sms \in DOMAIN all /\ fServerMediaSessions' = sms
    BY <1>3, <1>7
  <2>2. u2 = IF isNew THEN OnceMore(u, sms) ELSE u
    BY <1>17
  <2>3. media' = IF isNew THEN Referenced(all, sms) ELSE all
    BY <1>3
  <2> HIDE DEF u, u2
  <2>4. CASE isNew
    <3>1. /\ MediaSound(Referenced(all, sms), sms, [u EXCEPT ![sms] = @ + 1])
          /\ \A m \in DOMAIN all : Referenced(all, sms)[m].described = all[m].described
      BY <2>1, ReferencedSound
    <3>2. MediaSound(media', sms, u2)
      BY <2>2, <2>3, <2>4, <3>1 DEF OnceMore
    <3> QED
      BY <2>1, <2>3, <2>4, <3>1, <3>2 DEF u2
  <2>5. CASE ~isNew
    BY <2>1, <2>2, <2>3, <2>5 DEF u2
  <2> QED
    BY <2>4, <2>5
<1>34. LiveStreamIsFed'
  <2> SUFFICES ASSUME program = "live", NEW x \in DOMAIN streams'
               PROVE  callback' = x \/ media'[streams'[x].media].described = "late"
    BY <1>1 DEF LiveStreamIsFed
  <2>1. streams'[x].media = sms
    <3>1. x \in DOMAIN left.streams => streams'[x].media = sms
      BY <1>7, <1>11, <1>22
    <3> QED
      BY <1>22, <3>1
  <2>2. y \in DOMAIN streams' /\ streams'[y].media = sms
    BY <1>22
  <2>3. x = y
    <3> DEFINE all2 == streams'
               last2 == fLastStreamToken'
    <3>1. /\ StreamsSound(all2, last2, T2, M2) /\ x \in DOMAIN all2 /\ y \in DOMAIN all2
          /\ all2[x].media = all2[y].media
      BY <1>22, <2>1, <2>2
    <3> HIDE DEF all2, last2
    <3> QED
      BY <3>1, OneLiveStream
  <2>4. CASE y \notin DOMAIN left.streams
    BY <1>3, <2>3, <2>4
  <2>5. CASE y \in DOMAIN left.streams
    <3>1. callback' = CallbackLeft(P)
      BY <1>3, <1>12, <2>5
    <3>2. y \in DOMAIN streams /\ y \notin ReferencedByThese(P)
      BY <1>11, <2>5
    <3>3. CallbackLeft(P) = y \/ media[streams[y].media].described = "late"
      BY <1>9, <3>2, FedStill
    <3>4. /\ streams[y].media = sms /\ sms \in DOMAIN all
          /\ all[sms].described = media[sms].described
      BY <1>7, <3>2
    <3>5. media'[sms].described = media[sms].described
      BY <1>33, <3>4
    <3> QED
      BY <2>1, <2>3, <3>1, <3>3, <3>4, <3>5
  <2> QED
    BY <2>4, <2>5
<1>35. callback' \in Streams \cup {NULL}
  <2>1. left.callback \in Streams \cup {NULL}
    BY <1>5, <1>12 DEF CallbackLeft
  <2> QED
    BY <1>3, <1>14, <2>1
<1>36. Others' /\ NotedAreConnected'
  <2>1. ASSUME NEW note \in fTCPStreamingDatabase'
        PROVE  \E e \in Connections : connections'[e].socket = note.socket
    <3>1. CASE note \in kept
      <4>1. \E e \in Connections : connections[e].socket = note.socket
        BY <1>29, <3>1 DEF IInv, NotedAreConnected
      <4> QED
        BY <1>1, <4>1
    <3>2. CASE overTCP /\ note = record
      BY <1>1, <1>27, <3>2
    <3> QED
      BY <1>27, <3>1, <3>2
  <2>2. NotedAreConnected'
    BY <2>1 DEF NotedAreConnected
  <2>3. Others'
    BY <1>1, <1>31, <1>35 DEF IInv, Others, Tracks
  <2> QED
    BY <2>2, <2>3
<1>37. IInv'
  BY <1>1, <1>17, <1>22, <1>26, <1>32, <1>33, <1>34, <1>36, Sound DEF T2, M2, K2
<1>38. ASSUME NEW x \in DOMAIN streams, NEW target \in streams[x].targets
       PROVE  \/ target.session = s
              \/ x \in DOMAIN streams' /\ target \in streams'[x].targets
  <2>1. CASE x \in DOMAIN left.streams /\ target \in left.streams[x].targets
    BY <1>22, <2>1
  <2>2. CASE \E e \in destinations : /\ <<e.session, e.track>> \in P
                                     /\ e.session = target.session
                                     /\ e.socket = target.socket
    BY <1>9, <2>2
  <2> QED
    BY <1>11, <2>1, <2>2
<1> QED
  BY <1>37, <1>38
-----------------------------------------------------------------------------
(***************************************************************************)
(* The theorems.                                                           *)
(***************************************************************************)

\* At first there is nothing that refers, or is referred to.
LEMMA InitKeepsIInv ==
  ASSUME Init
  PROVE  IInv
<1>1. /\ DOMAIN sessions = {} /\ DOMAIN media = {} /\ DOMAIN streams = {}
      /\ DOMAIN describing = {} /\ describing \in Seq(Descriptions)
  BY DEF Init
<1>2. AllPairs = {}
  BY <1>1 DEF AllPairs
<1>3. DOMAIN TokenMap = {} /\ DOMAIN SocketMap = {}
  BY <1>2 DEF TokenMap, SocketMap
<1>4. IsFiniteSet({}) /\ Cardinality({}) = 0
  BY FS_EmptySet
<1>5. UsesMap = [m \in Media |-> 0]
  <2>1. ASSUME NEW m
        PROVE  SessionsOf(sessions, m) = {} /\ DescriptionsOf(describing, m) = {}
    BY <1>1 DEF SessionsOf, DescriptionsOf
  <2> QED
    BY <1>4, <2>1 DEF UsesMap, Uses
<1>6. UsesMap \in [Media -> Nat] /\ \A m \in Media : UsesMap[m] = 0
  BY <1>5
<1>7. MediaSound(media, fServerMediaSessions, UsesMap)
  BY <1>1, <1>5, <1>6 DEF MediaSound, Init
<1>8. StreamsSound(streams, fLastStreamToken, TokenMap, MediaMap)
  <2>1. fLastStreamToken = [key \in Keys |-> NULL]
    BY DEF Init, Keys
  <2> QED
    BY <1>1, <1>3, <1>4, <2>1 DEF StreamsSound
<1>9. /\ DestinationsSound(streams, destinations, TokenMap, SocketMap)
      /\ NotesSound(destinations, fTCPStreamingDatabase, TokenMap, SocketMap, stale)
  BY <1>1, <1>3 DEF DestinationsSound, NotesSound, Init
<1>10. SessionsSound /\ NotedAreConnected /\ LiveStreamIsFed
  BY <1>1, <1>4 DEF SessionsSound, NotedAreConnected, LiveStreamIsFed, Init
<1>11. Others
  BY <1>1 DEF Others, Init, NoConnection
<1> QED
  BY <1>7, <1>8, <1>9, <1>10, <1>11 DEF IInv

\* A step that changes nothing keeps the invariant.
LEMMA StutterKeepsIInv ==
  ASSUME IInv, UNCHANGED vars
  PROVE  IInv'
<1>1. /\ TokenMap' = TokenMap /\ MediaMap' = MediaMap /\ SocketMap' = SocketMap
      /\ UsesMap' = UsesMap /\ SessionsSound'
  BY SessionsUnchanged DEF IInv, vars
<1>2. Others' /\ LiveStreamIsFed' /\ NotedAreConnected'
  BY DEF IInv, Others, LiveStreamIsFed, NotedAreConnected, Tracks, vars, streamVars,
         mediaVars
<1> QED
  BY <1>1, <1>2, Sound DEF IInv, vars, streamVars, mediaVars

\* Every step keeps the invariant.
LEMMA StepKeepsIInv ==
  ASSUME IInv, [Next]_vars
  PROVE  IInv'
<1>1. ASSUME NEW c \in Connections,
             \/ \E socket \in Sockets : Connect(c, socket)
             \/ Describe(c) \/ DescribeAtOnce(c) \/ ConnectionCloses(c)
      PROVE  IInv'
  BY <1>1, ConnectKeepsIInv, DescribeKeepsIInv, DescribeAtOnceKeepsIInv,
     ConnectionClosesKeepsIInv
<1>2. ASSUME NEW c \in Connections, NEW s \in SessionIds, NEW track,
             \/ SetupRefused(c, s, track)
             \/ \E overTCP \in BOOLEAN : Setup(c, s, track, overTCP)
      PROVE  IInv'
  BY <1>2, SetupRefusedKeepsIInv, SetupKeepsIInv
<1>3. ASSUME NEW c \in Connections, NEW s \in SessionIds,
             Play(c, s) \/ Pause(c, s) \/ Teardown(c, s)
      PROVE  IInv'
  BY <1>3, PlayKeepsIInv, PauseKeepsIInv, TeardownKeepsIInv
<1>4. CASE Described \/ DescribedForNobody
  BY <1>4, DescribedKeepsIInv, DescribedForNobodyKeepsIInv
<1>5. ASSUME NEW s \in SessionIds, LivenessTimeout(s)
      PROVE  IInv'
  BY <1>5, LivenessTimeoutKeepsIInv
<1>6. ASSUME NEW x \in Streams,
             SourceEnds(x) \/ \E socket \in Sockets : SendFails(x, socket)
      PROVE  IInv'
  BY <1>6, SourceEndsKeepsIInv, SendFailsKeepsIInv
<1>7. CASE UNCHANGED vars
  BY <1>7, StutterKeepsIInv
<1> QED
  BY <1>1, <1>2, <1>3, <1>4, <1>5, <1>6, <1>7 DEF Next

\* The invariant holds in every state.
LEMMA Invariant == Spec => []IInv
<1>1. Init => IInv
  BY InitKeepsIInv
<1>2. IInv /\ [Next]_vars => IInv'
  BY StepKeepsIInv
<1> QED
  BY <1>1, <1>2, PTL DEF Spec

\* Objects have their types in every state.
THEOREM TypeCorrect == Spec => []TypeOK
<1>1. IInv => TypeOK
  <2> SUFFICES ASSUME IInv PROVE TypeOK
    OBVIOUS
  <2>1. \A s \in DOMAIN sessions :
           /\ sessions[s].media \in Media \cup {NULL}
           /\ sessions[s].tracks \in {<<>>} \cup [Tracks -> TrackState]
    BY DEF IInv, SessionsSound
  <2> QED
    BY <2>1 DEF TypeOK, IInv, Others, SessionsSound, MediaSound, StreamsSound,
                DestinationsSound, NotesSound, TrackState, StreamRecord, Target,
                MediaRecord, Keys, Descriptions
<1> QED
  BY <1>1, Invariant, PTL

\* What is counted is what refers, and what is referred to exists.
LEMMA CountsAreTrue ==
  ASSUME IInv
  PROVE  CountsAgree
<1>1. /\ SessionsSound /\ describing \in Seq(Descriptions)
      /\ MediaSound(media, fServerMediaSessions, UsesMap)
      /\ StreamsSound(streams, fLastStreamToken, TokenMap, MediaMap)
  BY DEF IInv, Others
<1>2. IsFiniteSet(DOMAIN sessions) /\ DOMAIN TokenMap = AllPairs
  BY <1>1, Maps DEF SessionsSound
<1>3. \A m \in Media : UsesMap[m] = Cardinality({s \in DOMAIN sessions : sessions[s].media = m})
                           + Cardinality({i \in DOMAIN describing : describing[i].media = m})
  BY DEF UsesMap, Uses, SessionsOf, DescriptionsOf
<1>4. /\ \A s \in DOMAIN sessions :
            sessions[s].media \in Media => UsesMap[sessions[s].media] # 0
      /\ \A i \in DOMAIN describing :
            describing[i].media \in Media => UsesMap[describing[i].media] # 0
  BY <1>1, <1>2, UsesCount DEF UsesMap
<1>5. ASSUME NEW m \in DOMAIN media
      PROVE  /\ media[m].referenceCount =
                    Cardinality({s \in DOMAIN sessions : sessions[s].media = m})
                    + Cardinality({i \in DOMAIN describing : describing[i].media = m})
             /\ media[m].deleteWhenUnreferenced => media[m].referenceCount > 0
  <2>1. m \in Media /\ media[m].referenceCount = UsesMap[m] /\ UsesMap[m] \in Nat
        /\ (media[m].deleteWhenUnreferenced => UsesMap[m] # 0)
    BY <1>1 DEF MediaSound
  <2> QED
    BY <1>3, <2>1
<1>6. {sessions[s].media : s \in DOMAIN sessions}
         \cup {describing[i].media : i \in DOMAIN describing}
         \cup {fServerMediaSessions} \subseteq DOMAIN media \cup {NULL}
  <2>1. ASSUME NEW s \in DOMAIN sessions
        PROVE  sessions[s].media \in DOMAIN media \cup {NULL}
    BY <1>1, <1>4 DEF SessionsSound, MediaSound
  <2>2. ASSUME NEW i \in DOMAIN describing
        PROVE  describing[i].media \in DOMAIN media
    <3>1. describing[i] \in Descriptions
      BY <1>1
    <3>2. describing[i].media \in Media
      BY <3>1 DEF Descriptions
    <3> QED
      BY <1>1, <1>4, <3>2 DEF MediaSound
  <2> QED
    BY <1>1, <2>1, <2>2 DEF MediaSound
<1>7. ASSUME NEW x \in DOMAIN streams
      PROVE  /\ streams[x].referenceCount > 0
             /\ streams[x].referenceCount =
                    Cardinality({pair \in AllPairs : Token(pair) = x})
  <2> DEFINE P == {pair \in AllPairs : Token(pair) = x}
             Q == {pair \in DOMAIN TokenMap : TokenMap[pair] = x}
  <2>1. P = Q
    BY <1>2, Maps
  <2>2. streams[x].referenceCount = Cardinality(Q) /\ Q # {} /\ IsFiniteSet(AllPairs)
    BY <1>1, <1>2 DEF StreamsSound
  <2>3. IsFiniteSet(P) /\ P # {}
    <3>1. P \subseteq AllPairs
      OBVIOUS
    <3> HIDE DEF P, Q
    <3> QED
      BY <2>1, <2>2, <3>1, FS_Subset
  <2> DEFINE n == Cardinality(P)
  <2>4. n \in Nat /\ n # 0
    <3> HIDE DEF P
    <3> QED
      BY <2>3, FS_EmptySet, FS_CardinalityType
  <2>5. streams[x].referenceCount = n
    BY <2>1, <2>2
  <2> HIDE DEF n, P
  <2>6. streams[x].referenceCount > 0 /\ streams[x].referenceCount = n
    BY <2>4, <2>5
  <2> QED
    BY <2>6 DEF n, P
<1>8. ASSUME NEW pair \in AllPairs, Token(pair) # NULL
      PROVE  /\ Token(pair) \in DOMAIN streams
             /\ streams[Token(pair)].media = sessions[pair[1]].media
             /\ streams[Token(pair)].track = pair[2]
  BY <1>1, <1>8, Maps DEF StreamsSound
<1> QED
  BY <1>5, <1>6, <1>7, <1>8 DEF CountsAgree

\* What may be reused is a stream of the track, and is the only one if shared.
LEMMA LastStreamsAreShared ==
  ASSUME IInv
  PROVE  LastStreamIsShared
<1>1. StreamsSound(streams, fLastStreamToken, TokenMap, MediaMap)
  BY DEF IInv
<1>2. DOMAIN fLastStreamToken = Keys
  BY <1>1 DEF StreamsSound
<1> QED
  BY <1>1, <1>2 DEF StreamsSound, LastStreamIsShared, fReuseFirstSource

\* What is sent over TCP is noted, under the socket of a connection.
LEMMA StreamsAreNoted ==
  ASSUME IInv
  PROVE  TCPStreamsAreNoted
<1>1. /\ NotesSound(destinations, fTCPStreamingDatabase, TokenMap, SocketMap, stale)
      /\ NotedAreConnected
  BY DEF IInv
<1>2. ASSUME NEW record \in fTCPStreamingDatabase
      PROVE  /\ <<record.session, record.track>> \in AllPairs
             /\ State(<<record.session, record.track>>).tcpSocketNum = record.socket
  <2> DEFINE own == <<record.session, record.track>>
  <2>1. own \in AllPairs /\ SocketMap[own] = record.socket
    BY <1>1, Maps DEF NotesSound
  <2>2. SocketMap[own] = State(own).tcpSocketNum
    <3> HIDE DEF own
    <3> QED
      BY <2>1, Maps
  <2> QED
    BY <2>1, <2>2
<1> QED
  BY <1>1, <1>2 DEF TCPStreamsAreNoted, NotesSound, NotedAreConnected

\* The counted references are those that there are, no media, stream or connection
\* is used after it went, and no stream is left behind, whatever requests,
\* timeouts, descriptions and closed connections meet.
THEOREM ReferencesAreTrue == Spec => []ReferencesAgree
<1>1. IInv => ReferencesAgree
  BY CountsAreTrue, LastStreamsAreShared, StreamsAreNoted DEF ReferencesAgree
<1> QED
  BY <1>1, Invariant, PTL

\* A live stream that is set up is given what is received, whichever of its clients
\* go, unless its first description came later.
THEOREM LiveStreamIsServed == Spec => []LiveStreamIsFed
<1>1. IInv => LiveStreamIsFed
  BY DEF IInv
<1> QED
  BY <1>1, Invariant, PTL

\* Where tracks are deleted, a client that is no longer sent a stream is that of
\* such a track.
LEMMA ClientsLeft ==
  ASSUME IInv, NEW pairs, pairs \subseteq AllPairs, NEW ended, NEW described,
         DeleteTracks(pairs, ended, described),
         NEW x \in DOMAIN streams, NEW target \in streams[x].targets
  PROVE  \/ x \in DOMAIN streams' /\ target \in streams'[x].targets
         \/ \E e \in destinations : /\ <<e.session, e.track>> \in pairs
                                    /\ e.session = target.session
                                    /\ e.socket = target.socket
<1>1. /\ StreamsSound(streams, fLastStreamToken, TokenMap, MediaMap)
      /\ DestinationsSound(streams, destinations, TokenMap, SocketMap)
  BY DEF IInv
<1>2. streams' = Deleted(pairs).streams
  BY TracksDeleted
<1> QED
  BY <1>1, <1>2, DeletedSound

\* A connection that goes takes along what is sent over its socket only.
LEMMA StoppedAreItsOwn ==
  ASSUME IInv, NEW socket, NEW described, StopTCPStreaming(socket, described),
         NEW x \in DOMAIN streams, NEW target \in streams[x].targets
  PROVE  \/ x \in DOMAIN streams' /\ target \in streams'[x].targets
         \/ target.socket = socket
<1>1. /\ DeleteTracks(SentOver(socket), {}, described)
      /\ SentOver(socket) \subseteq AllPairs
      /\ \A pair \in SentOver(socket) : SocketMap[pair] = socket
  BY StoppedAre
<1>2. CASE x \in DOMAIN streams' /\ target \in streams'[x].targets
  BY <1>2
<1>3. CASE \E e \in destinations : /\ <<e.session, e.track>> \in SentOver(socket)
                                   /\ e.session = target.session
                                   /\ e.socket = target.socket
  BY <1>1, <1>3 DEF IInv, DestinationsSound
<1> DEFINE none == {}
<1>4. DeleteTracks(SentOver(socket), none, described)
  BY <1>1
<1> HIDE DEF none
<1> QED
  BY <1>1, <1>2, <1>3, <1>4, ClientsLeft

\* A session that is torn down, in part or as a whole, loses its own clients only.
LEMMA TornDownAreItsOwn ==
  ASSUME IInv, NEW s \in DOMAIN sessions, NEW pairs, pairs \subseteq TracksLeft(s),
         NEW ended, DeleteTracks(pairs, ended, {}),
         NEW x \in DOMAIN streams, NEW target \in streams[x].targets
  PROVE  \/ x \in DOMAIN streams' /\ target \in streams'[x].targets
         \/ target.session = s
<1>1. pairs \subseteq AllPairs
  BY DEF AllPairs
<1>2. ASSUME NEW d, <<d.session, d.track>> \in pairs
      PROVE  d.session = s
  <2>1. PICK t : <<d.session, d.track>> = <<s, t>>
    BY <1>2 DEF TracksLeft
  <2> QED
    BY <2>1
<1> DEFINE none == {}
<1>3. DeleteTracks(pairs, ended, none)
  OBVIOUS
<1> HIDE DEF none
<1>4. \/ x \in DOMAIN streams' /\ target \in streams'[x].targets
      \/ \E e \in destinations : /\ <<e.session, e.track>> \in pairs
                                 /\ e.session = target.session
                                 /\ e.socket = target.socket
  BY <1>1, <1>3, ClientsLeft
<1> QED
  BY <1>2, <1>4

\* PLAY and PAUSE take no client away.
LEMMA NobodyIsLeftOut ==
  ASSUME IInv, NEW c \in Connections, NEW s \in SessionIds, Play(c, s) \/ Pause(c, s),
         NEW x \in DOMAIN streams, NEW target \in streams[x].targets
  PROVE  x \in DOMAIN streams' /\ target \in streams'[x].targets
<1>1. streams[x] \in StreamRecord
  BY DEF IInv, StreamsSound
<1>2. CASE Play(c, s)
  <2>1. PICK tracks \in Chosen(s) :
           streams' = [z \in DOMAIN streams |->
               LET pairs == {pair \in Pairs(s, tracks) : Token(pair) = z}
                   clients == {[session |-> s, socket |-> d.socket] :
                                  d \in {d \in destinations :
                                            <<d.session, d.track>> \in pairs}}
               IN  IF pairs = {} THEN streams[z] ELSE Started(z, clients)]
    BY <1>2 DEF Play
  <2> DEFINE pairs == {pair \in Pairs(s, tracks) : Token(pair) = x}
             clients == {[session |-> s, socket |-> d.socket] :
                            d \in {d \in destinations :
                                      <<d.session, d.track>> \in pairs}}
             runs == streams[x].running \/ ~streams[x].playing
  <2>2. x \in DOMAIN streams'
        /\ streams'[x] = IF pairs = {} THEN streams[x] ELSE Started(x, clients)
    BY <2>1
  <2> HIDE DEF clients, pairs
  <2>3. \/ streams'[x] = streams[x]
        \/ streams'[x] = [streams[x] EXCEPT !.targets = @ \cup clients,
                                            !.playing = TRUE, !.running = runs]
    BY <2>2 DEF Started
  <2> HIDE DEF runs
  <2> QED
    BY <1>1, <2>2, <2>3 DEF StreamRecord
<1>3. CASE Pause(c, s)
  <2>1. PICK tracks \in Chosen(s) :
           streams' = [z \in DOMAIN streams |->
               IF \E pair \in Pairs(s, tracks) : Token(pair) = z
               THEN Paused(streams[z]) ELSE streams[z]]
    BY <1>3 DEF Pause
  <2>2. /\ x \in DOMAIN streams'
        /\ \/ streams'[x] = streams[x]
           \/ streams'[x] = [streams[x] EXCEPT !.playing = FALSE, !.running = FALSE]
    BY <2>1 DEF Paused
  <2> QED
    BY <1>1, <2>2 DEF StreamRecord
<1> QED
  BY <1>2, <1>3

\* What a client is sent goes on, but for its source's end, a send to its socket that
\* fails, and what is about its session or its connection.
LEMMA StepDisturbsNobody ==
  ASSUME IInv, [Next]_vars, NEW x \in DOMAIN streams, NEW target \in streams[x].targets
  PROVE  \/ x \in DOMAIN streams' /\ target \in streams'[x].targets
         \/ SourceEnds(x) \/ SendFails(x, target.socket)
         \/ IsAbout(target.session, target.socket)
<1> DEFINE kept == x \in DOMAIN streams' /\ target \in streams'[x].targets
<1>1. ASSUME streams' = streams
      PROVE  kept
  BY <1>1
<1>2. ASSUME NEW c \in Connections,
             \/ \E socket \in Sockets : Connect(c, socket)
             \/ Describe(c) \/ DescribeAtOnce(c)
             \/ \E s \in SessionIds : \E track \in 1 .. NumTracks : SetupRefused(c, s, track)
      PROVE  kept
  <2>1. streams' = streams
    BY <1>2 DEF Connect, Describe, DescribeAtOnce, SetupRefused, streamVars
  <2> QED
    BY <1>1, <2>1
<1>3. ASSUME NEW c \in Connections, ConnectionCloses(c)
      PROVE  kept \/ IsAbout(target.session, target.socket)
  <2>1. CASE StopTCPStreaming(connections[c].socket, {})
    <3> DEFINE none == {}
    <3>1. StopTCPStreaming(connections[c].socket, none)
      BY <2>1
    <3> HIDE DEF none
    <3>2. kept \/ target.socket = connections[c].socket
      BY <3>1, StoppedAreItsOwn
    <3> QED
      BY <1>3, <3>2 DEF IsAbout
  <2>2. CASE UNCHANGED streamVars
    BY <1>1, <2>2 DEF streamVars
  <2> QED
    BY <1>3, <2>1, <2>2 DEF ConnectionCloses
<1>4. ASSUME NEW c \in Connections, NEW s \in SessionIds, NEW track,
             NEW overTCP \in BOOLEAN, Setup(c, s, track, overTCP)
      PROVE  kept \/ IsAbout(target.session, target.socket)
  <2>1. kept \/ target.session = s
    BY <1>4, SetupKeepsIInv
  <2>2. track \in Tracks
    BY <1>4 DEF Setup
  <2>3. Setup(c, s, track, TRUE) \/ Setup(c, s, track, FALSE)
    BY <1>4
  <2> QED
    BY <2>1, <2>2, <2>3 DEF IsAbout
<1>5. ASSUME NEW c \in Connections, NEW s \in SessionIds, Play(c, s) \/ Pause(c, s)
      PROVE  kept
  BY <1>5, NobodyIsLeftOut
<1>6. ASSUME NEW c \in Connections, NEW s \in SessionIds, Teardown(c, s)
      PROVE  kept \/ IsAbout(target.session, target.socket)
  <2>1. s \in DOMAIN sessions
    BY <1>6 DEF Teardown, InSession
  <2> DEFINE none == {}
  <2>2. PICK tracks \in Chosen(s) : DeleteTracks(Pairs(s, tracks), none, {})
    BY <1>6 DEF Teardown
  <2>3. Pairs(s, tracks) \subseteq TracksLeft(s)
    BY DEF Pairs
  <2> HIDE DEF none
  <2>4. kept \/ target.session = s
    BY <2>1, <2>2, <2>3, TornDownAreItsOwn
  <2> QED
    BY <1>6, <2>4 DEF IsAbout
<1>7. CASE Described
  BY <1>1, <1>7 DEF Described, streamVars
<1>8. CASE DescribedForNobody
  <2> DEFINE socket == connections[Last(describing).connection].socket
             described == {Last(describing).media}
  <2>1. StopTCPStreaming(socket, described)
    BY <1>8 DEF DescribedForNobody
  <2>2. kept \/ target.socket = socket
    <3> HIDE DEF socket, described
    <3> QED
      BY <2>1, StoppedAreItsOwn
  <2> QED
    BY <1>8, <2>2 DEF IsAbout
<1>9. ASSUME NEW s \in SessionIds, LivenessTimeout(s)
      PROVE  kept \/ IsAbout(target.session, target.socket)
  <2> DEFINE ended == {s}
  <2>1. s \in DOMAIN sessions /\ DeleteTracks(TracksLeft(s), ended, {})
    BY <1>9 DEF LivenessTimeout
  <2> HIDE DEF ended
  <2>2. kept \/ target.session = s
    BY <2>1, TornDownAreItsOwn
  <2> QED
    BY <1>9, <2>2 DEF IsAbout
<1>10. ASSUME NEW y \in Streams, SourceEnds(y)
       PROVE  kept \/ SourceEnds(x)
  <2>1. CASE y = x
    BY <1>10, <2>1
  <2>2. CASE y # x
    BY <1>10, <2>2 DEF SourceEnds
  <2> QED
    BY <2>1, <2>2
<1>11. ASSUME NEW y \in Streams, NEW socket \in Sockets, SendFails(y, socket)
       PROVE  kept \/ SendFails(x, target.socket)
  <2>1. CASE y = x /\ socket = target.socket
    BY <1>11, <2>1
  <2>2. CASE y # x
    BY <1>11, <2>2 DEF SendFails
  <2>3. CASE y = x /\ socket # target.socket
    <3>1. streams[x] \in StreamRecord
      BY DEF IInv, StreamsSound
    <3> DEFINE fewer == {other \in streams[x].targets : other.socket # socket}
    <3>2. x \in DOMAIN streams' /\ streams'[x] = [streams[x] EXCEPT !.targets = fewer]
      BY <1>11, <2>3 DEF SendFails
    <3>3. target \in fewer
      BY <2>3
    <3> HIDE DEF fewer
    <3> QED
      BY <3>1, <3>2, <3>3 DEF StreamRecord
  <2> QED
    BY <2>1, <2>2, <2>3
<1>12. CASE UNCHANGED vars
  BY <1>1, <1>12 DEF vars, streamVars
<1> HIDE DEF kept
<1> QED
  BY <1>2, <1>3, <1>4, <1>5, <1>6, <1>7, <1>8, <1>9, <1>10, <1>11, <1>12 DEF Next, kept

\* A client that is being sent a stream goes on being sent it, whatever other
\* clients of the stream, or of the server, do.
THEOREM NobodyIsDisturbed == Spec => OthersUndisturbed
<1>1. ASSUME IInv, [Next]_vars
      PROVE  \A x \in DOMAIN streams : \A target \in streams[x].targets :
                \/ x \in DOMAIN streams' /\ target \in streams'[x].targets
                \/ SourceEnds(x) \/ SendFails(x, target.socket)
                \/ IsAbout(target.session, target.socket)
  BY <1>1, StepDisturbsNobody
<1> QED
  BY <1>1, Invariant, PTL DEF Spec, OthersUndisturbed
=============================================================================
