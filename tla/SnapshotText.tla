---------------------------- MODULE SnapshotText ----------------------------
(***************************************************************************)
(* The text of a Snapshot: what the Field shows to everybody, how          *)
(* WorldSnapshotBuilder prints it and copyWorldUpdateForSession adds the   *)
(* recipient's own fields, and how ClientWorldSnapshotApplier parses it    *)
(* and replaces the client's EnvironmentState, after players have joined,  *)
(* left, moved and been renamed.                                           *)
(*                                                                         *)
(* A text is the set of its fields: kind, index, name of the field, value. *)
(* The builder writes no field twice, and the applier keeps the entries in *)
(* maps by their index: the order of the fields says nothing to it.        *)
(* Numbers are integers and print keeps them to Precision, as an ostream   *)
(* keeps six digits.  A player name is "plain", "other", or one that needs *)
(* care: "padded" (plain with blanks around it), "blank", and "split",     *)
(* which holds a separator of the text.  The one coordinate and the one    *)
(* ether level stand for three and four.  How long the values print is not *)
(* followed: an entry is of any size between the least and the greatest,   *)
(* and the size of the whole decides whether it is sent.                   *)
(***************************************************************************)
EXTENDS Integers, Sequences, FiniteSetsExt

CONSTANTS
  PlayerIds,    \* gameplay ids; a player's session is its id when it is bound
  Places,       \* the places of players and NPCs
  Precision,    \* what print keeps
  MaxHazard,    \* the largest hazard a client accepts
  MaxEntries,   \* the client accepts fewer players, and fewer NPCs, than this
  MaxPayload,   \* MAX_UPDATE_PAYLOAD, in the unit of the sizes below
  HeadSize,     \* size of the ether levels, the hazard and the two counts
  SmallestEntry, LargestEntry,  \* sizes of the fields of one NPC or player
  LargestLocal  \* size of the fields a recipient has of its own, at most

VARIABLES
  roster,       \* Field's players: name, place, bound or not
  beasts,       \* Field's NPCs: place, hit points
  hazardLevel,  \* lastEtherHazard
  text,         \* the latest Snapshot on its way, or NoText
  shot,         \* history: what the Field showed when it was captured
  environment   \* the client's EnvironmentState, or NoState

snapshotVars == <<roster, beasts, hazardLevel, text, shot, environment>>

NoText == {}
NoState == [hazard |-> -1]
Field(kind, i, name, value) == [kind |-> kind, index |-> i, name |-> name, value |-> value]

Init ==
  /\ roster = [p \in {} |-> 0] /\ beasts = <<>> /\ hazardLevel = 0
  /\ text = NoText /\ environment = NoState
  /\ shot = [ok |-> TRUE, players |-> <<>>, npcs |-> <<>>, hazard |-> 0, recipient |-> 0]

-----------------------------------------------------------------------------
(* Names *)

trimPlayerName(name) == CASE name = "padded" -> "plain" [] name = "blank" -> "" [] OTHER -> name

\* Player::setPlayerName.
storable(name) == trimPlayerName(name) # "" /\ name # "split"

-----------------------------------------------------------------------------
(* The Field, until it is captured *)

\* Bound of the model: one capture, whether it gives a Snapshot or fails.
changing == text = NoText /\ environment = NoState /\ shot.ok

Join(p, name, x) ==
  /\ changing
  /\ p \notin DOMAIN roster /\ storable(name)
  /\ roster' = [q \in DOMAIN roster \cup {p} |->
                  IF q = p THEN [name |-> trimPlayerName(name), x |-> x, bound |-> TRUE]
                  ELSE roster[q]]
  /\ UNCHANGED <<beasts, hazardLevel, text, shot, environment>>

\* A session ends and its player stays, or it comes back to its player.
Bind(p, bound) ==
  /\ changing
  /\ p \in DOMAIN roster /\ roster[p].bound # bound
  /\ roster' = [roster EXCEPT ![p].bound = bound]
  /\ UNCHANGED <<beasts, hazardLevel, text, shot, environment>>

Rename(p, name) ==
  /\ changing
  /\ p \in DOMAIN roster /\ storable(name)
  /\ roster' = [roster EXCEPT ![p].name = trimPlayerName(name)]
  /\ UNCHANGED <<beasts, hazardLevel, text, shot, environment>>

Walk(p, x) ==
  /\ changing
  /\ p \in DOMAIN roster /\ roster[p].x # x
  /\ roster' = [roster EXCEPT ![p].x = x]
  /\ UNCHANGED <<beasts, hazardLevel, text, shot, environment>>

\* An NPC is placed, wounded to death, or the hazard has changed.
Nature ==
  /\ changing
  /\ \/ /\ Len(beasts) < MaxEntries
        /\ beasts' = Append(beasts, [id |-> Len(beasts) + 1, x |-> 0, hp |-> 1])
        /\ UNCHANGED hazardLevel
     \/ /\ \E i \in DOMAIN beasts : beasts[i].hp > 0 /\ beasts' = [beasts EXCEPT ![i].hp = 0]
        /\ UNCHANGED hazardLevel
     \/ hazardLevel' = MaxHazard - hazardLevel /\ UNCHANGED beasts
  /\ UNCHANGED <<roster, text, shot, environment>>

\* The numbers of a set as a std::map of them is iterated.
ascending(S) ==
  CHOOSE s \in [1..Cardinality(S) -> S] :
    \A i, j \in 1..Cardinality(S) : i < j => s[i] < s[j]

\* The NPCs that are alive.
publicNpcSnapshots ==
  LET alive == ascending({i \in DOMAIN beasts : beasts[i].hp > 0})
  IN [i \in DOMAIN alive |-> beasts[alive[i]]]

\* The players in the order of their ids; not those of ended sessions.
publicPlayerPoses ==
  LET ids == ascending({p \in DOMAIN roster : roster[p].bound})
  IN [i \in DOMAIN ids |-> [id |-> ids[i], session |-> ids[i], name |-> roster[ids[i]].name,
                            x |-> roster[ids[i]].x]]

-----------------------------------------------------------------------------
(* WorldSnapshotBuilder *)

print(n) == n - (n % Precision)

npcFields(i, b) ==
  {Field("npc", i - 1, "id", b.id), Field("npc", i - 1, "x", print(b.x)),
   Field("npc", i - 1, "hp", b.hp), Field("npc", i - 1, "alive", 1)}
playerFields(i, p) ==
  {Field("player", i - 1, "session", p.session), Field("player", i - 1, "x", print(p.x)),
   Field("player", i - 1, "id", p.id), Field("player", i - 1, "name", p.name)}

\* The states that formatPayload prints, whatever their size.
printable(players) ==
  \A i \in DOMAIN players : players[i].session > 0 /\ players[i].name \notin {"", "split"}

formatPayload(players, npcs, hazard) ==
  {Field("ether", 0, "hazard", hazard), Field("npc", 0, "count", Len(npcs)),
   Field("player", 0, "count", Len(players))}
    \cup (UNION {npcFields(i, npcs[i]) : i \in DOMAIN npcs})
    \cup (UNION {playerFields(i, players[i]) : i \in DOMAIN players})

\* Mutant of localFields: those of the first player, whoever receives them.
localFields_first(players, recipient) ==
  IF players = <<>> THEN {}
  ELSE {Field("local", 0, "x", print(players[1].x)), Field("local", 0, "seq", recipient)}

\* attachLocalSnapshotFields, if the recipient is among those captured.
localFields(players, recipient) ==
  LET own == {i \in DOMAIN players : players[i].session = recipient} IN
  IF own = {} THEN {}
  ELSE {Field("local", 0, "x", print(players[Min(own)].x)), Field("local", 0, "seq", recipient)}

\* The sizes that the text of count entries can have, and that the longest local
\* fields can have among the recipients served so far and this one.
sizes(count) == (HeadSize + SmallestEntry * count)..(HeadSize + LargestEntry * count)
localSizes(players, recipient) ==
  {size \in 0..LargestLocal : /\ players = <<>> => size = 0
                              /\ localFields(players, recipient) # {} => size > 0}

\* Mutant of validates: texts of every size are sent.
validates_any(size) == size >= 0

\* validateWorldUpdate.
validates(size) == size <= MaxPayload

\* capturePublicSnapshot, and the copies for the recipients up to this one.  A
\* Field that cannot be printed, or is too large, gives no Snapshot to anybody; a
\* recipient whose copy is too large ends the publishing for all after it.
Capture(recipient) ==
  LET players == publicPlayerPoses
      npcs == publicNpcSnapshots
  IN
  /\ changing
  /\ \E size \in sizes(Len(players) + Len(npcs)), extra \in localSizes(players, recipient) :
       LET ok == printable(players) /\ validates(size) /\ validates(size + extra) IN
       /\ text' = IF ok THEN formatPayload(players, npcs, hazardLevel)
                                \cup localFields(players, recipient)
                        ELSE NoText
       /\ shot' = [ok |-> ok, players |-> players, npcs |-> npcs, hazard |-> hazardLevel,
                   recipient |-> recipient]
  /\ UNCHANGED <<roster, beasts, hazardLevel, environment>>

-----------------------------------------------------------------------------
(* ClientWorldSnapshotApplier *)

fieldsOf(kind) == {f \in text : f.kind = kind /\ f.name # "count"}
indexes(kind) == {f.index : f \in fieldsOf(kind)}
countOf(kind) == (CHOOSE f \in text : f.kind = kind /\ f.name = "count").value

\* The value of a field of an entry, or what an entry begins with.
valueOf(kind, i, name, otherwise) ==
  LET found == {f \in fieldsOf(kind) : f.index = i /\ f.name = name} IN
  IF found = {} THEN otherwise ELSE (CHOOSE f \in found : TRUE).value

parsedPlayer(i) ==
  [id |-> valueOf("player", i, "id", 0), session |-> valueOf("player", i, "session", 0),
   name |-> trimPlayerName(valueOf("player", i, "name", "")), x |-> valueOf("player", i, "x", 0)]
parsedNpc(i) ==
  [id |-> valueOf("npc", i, "id", 0), x |-> valueOf("npc", i, "x", 0),
   hp |-> valueOf("npc", i, "hp", 0)]

countsMatch(kind) ==
  /\ countOf(kind) \in 0..(MaxEntries - 1)
  /\ Cardinality(indexes(kind)) = countOf(kind)

\* parsePayload: a separator within a value breaks its field.
parses ==
  /\ \A f \in fieldsOf("player") : f.name = "name" => f.value # "split"
  /\ valueOf("ether", 0, "hazard", -1) \in 0..MaxHazard
  /\ countsMatch("npc") /\ countsMatch("player")
  /\ \A i \in 0..(countOf("npc") - 1) :
       parsedNpc(i).id > 0 /\ valueOf("npc", i, "alive", 0) = 1
  /\ \A i \in 0..(countOf("player") - 1) :
       parsedPlayer(i).session > 0 /\ parsedPlayer(i).name # ""
  /\ Cardinality(fieldsOf("local")) \in {0, 2}

parsePayload ==
  [hazard |-> valueOf("ether", 0, "hazard", -1),
   npcs |-> [i \in 1..countOf("npc") |-> parsedNpc(i - 1)],
   players |-> [i \in 1..countOf("player") |-> parsedPlayer(i - 1)],
   hasLocalPlayer |-> fieldsOf("local") # {},
   localX |-> valueOf("local", 0, "x", 0), lastProcessed |-> valueOf("local", 0, "seq", 0)]

\* applySnapshot: the whole state is replaced, or nothing is.
ApplySnapshot ==
  /\ text # NoText
  /\ environment' = IF parses THEN parsePayload ELSE environment
  /\ text' = NoText
  /\ UNCHANGED <<roster, beasts, hazardLevel, shot>>

Next ==
  \/ \E p \in PlayerIds :
       \/ \E name \in {"plain", "padded", "split", "blank"}, x \in Places : Join(p, name, x)
       \/ \E bound \in BOOLEAN : Bind(p, bound)
       \/ \E name \in {"other", "padded", "split"} : Rename(p, name)
       \/ \E x \in Places : Walk(p, x)
       \/ Capture(p)
  \/ Nature
  \/ ApplySnapshot

Spec == Init /\ [][Next]_snapshotVars

-----------------------------------------------------------------------------
(* Properties *)

\* Whatever names players were given and whoever has left, the Field is captured
\* and sent as long as its largest text is within MAX_UPDATE_PAYLOAD, and what is
\* sent is accepted: setPlayerName lets no name through that the builder or the
\* parser refuses, and the server's limit on the size bites before the client's
\* limits on the numbers of players and NPCs.
SnapshotsAreAccepted ==
  /\ HeadSize + LargestEntry * (Len(shot.players) + Len(shot.npcs)) + LargestLocal <= MaxPayload
       => shot.ok
  /\ text # NoText => parses

\* A Snapshot that is applied gives the client the players, NPCs and hazard that
\* the Field showed: names and ids as they are, places to the precision of the
\* text, and its own place among them.
near(a, b) == a - b \in (1 - Precision)..(Precision - 1)
SnapshotsAreExact ==
  [][ApplySnapshot /\ parses =>
       /\ environment'.hazard = shot.hazard
       /\ Len(environment'.players) = Len(shot.players)
       /\ \A i \in DOMAIN shot.players :
            LET p == shot.players[i]
                q == environment'.players[i]
            IN q.session = p.session /\ q.id = p.id /\ q.name = p.name /\ near(q.x, p.x)
       /\ [i \in DOMAIN environment'.npcs |-> environment'.npcs[i].id]
            = [i \in DOMAIN shot.npcs |-> shot.npcs[i].id]
       /\ environment'.hasLocalPlayer =>
            \E i \in DOMAIN shot.players : shot.players[i].session = shot.recipient
                                           /\ near(environment'.localX, shot.players[i].x)]_snapshotVars
=============================================================================
