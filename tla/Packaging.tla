------------------------------ MODULE Packaging -----------------------------
(***************************************************************************)
(* What the node packages: main.js cut into blocks (blocks/src/raw.rs),    *)
(* the directory and playlist of a container (media/src/hls.rs), and the   *)
(* page and player directory around them (media/src/html.rs), each block   *)
(* linked with the size of all that lies below it (dir.rs, package.rs).    *)
(*                                                                         *)
(* A block is a record of what it holds, its links and its encoded length. *)
(* Its cid is the hash of that, so the record stands for the cid.          *)
(***************************************************************************)
EXTENDS Naturals, Sequences, SequencesExt, FiniteSetsExt

CONSTANTS
    Base,               \* base of a segment's number in its name, 10
    BLOCK_MAX_BYTES,
    NodeBytes,          \* encoded length of a dag-pb node without its links
    LinkBytes,          \* encoded length of a link
    HtmlBytes,          \* length of the rendered page
    PlaylistBytes,      \* length of a playlist without its entries
    EntryBytes,         \* length of an entry of the playlist
    ScriptLengths,      \* lengths main.js may have
    SegmentLengths,     \* lengths a segment may have, 0 when it holds no packet
    MaxSegments         \* bound: segments of the stream

ASSUME PackagingAssumption ==
    /\ Base \in Nat \ {0, 1}
    /\ {BLOCK_MAX_BYTES, NodeBytes, LinkBytes, HtmlBytes, PlaylistBytes,
        EntryBytes, MaxSegments} \subseteq Nat \ {0}
    /\ ScriptLengths \subseteq Nat
    /\ SegmentLengths \subseteq 0 .. BLOCK_MAX_BYTES

VARIABLES
    pc,         \* "ready", "running" or "panicked"
    main_js,    \* the bytes of main.js, which the build embeds
    script,     \* HLSPlayerDist.script: a MultiRawBlockFile
    container,  \* the MediaContainer of the stream so far
    hls,        \* the last HLSContainer published, or None
    player      \* the HLSPlayer published with it, or None

vars == <<pc, main_js, script, container, hls, player>>

None == [directory |-> <<>>]
-----------------------------------------------------------------------------
Total(sizes) == FoldSeq(+, 0, sizes)
Map(Op(_), seq) == [i \in DOMAIN seq |-> Op(seq[i])]

Block(content, links, bytes) == [content |-> content, links |-> links, bytes |-> bytes]
RawBlock(content, bytes) == Block(content, <<>>, bytes)

\* The assertions of RawBlockFile, MultiRawBlockFile and DirectoryBlock.
Fits(block) == block.bytes <= BLOCK_MAX_BYTES

LinkOwnBytes(name, block, total_size) ==        \* mutant: the size of the block alone
    [name |-> name, cid |-> block, size |-> block.bytes]
\* Package::link, for a package with the given root block and total size.
Link(name, block, total_size) == [name |-> name, cid |-> block, size |-> total_size]

DirectoryBlock(links) ==
    Block(<<"directory">>, links, NodeBytes + LinkBytes * Len(links))

DirectorySize(directory) ==
    Total(Map(LAMBDA link : link.size, directory.links)) + directory.bytes

-----------------------------------------------------------------------------
\* Mutant: chunks_exact, which leaves the remainder out.
ChunksExact(bytes) ==
    [i \in 1 .. Len(bytes) \div BLOCK_MAX_BYTES |->
        SubSeq(bytes, (i - 1) * BLOCK_MAX_BYTES + 1, i * BLOCK_MAX_BYTES)]

\* The runs of at most BLOCK_MAX_BYTES bytes that slice::chunks cuts.
Chunks(bytes) ==
    LET count == (Len(bytes) + BLOCK_MAX_BYTES - 1) \div BLOCK_MAX_BYTES IN
    [i \in 1 .. count |->
        SubSeq(bytes, (i - 1) * BLOCK_MAX_BYTES + 1,
               Min({i * BLOCK_MAX_BYTES, Len(bytes)}))]

\* MultiRawBlockFile: the root's unixfs data lists the parts' lengths.
MultiRawBlockFile(bytes) ==
    LET parts == Map(LAMBDA chunk : RawBlock(<<"data", chunk>>, Len(chunk)), Chunks(bytes))
        sizes == Map(LAMBDA part : part.bytes, parts) IN
    [parts |-> parts,
     root |-> Block(<<"file", sizes, Total(sizes)>>,
                    Map(LAMBDA part : Link(<<"">>, part, part.bytes), parts),
                    NodeBytes + LinkBytes * Len(parts))]

ScriptSize(file) == Total(Map(LAMBDA part : part.bytes, file.parts)) + file.root.bytes

-----------------------------------------------------------------------------
\* The number without its last k digits.
Quotient(n) ==
    LET quotient[k \in Nat] == IF k = 0 THEN n ELSE quotient[k - 1] \div Base IN quotient

\* How many digits to_string writes: 0 has one.
Digits(n) ==
    CHOOSE k \in 1 .. n + 1 : Quotient(n)[k] = 0 /\ \A j \in 1 .. k - 1 : Quotient(n)[j] # 0

SegmentNamePlain(n, width) ==                   \* mutant: the number as it is
    <<"z">> \o [i \in 1 .. Digits(n) |-> Quotient(n)[Digits(n) - i] % Base]
\* format!("z{0:01$}.ts", n, width): the number, with zeros up to the width.
SegmentName(n, width) ==
    LET length == Max({width, Digits(n)}) IN
    <<"z">> \o [i \in 1 .. length |-> Quotient(n)[length - i] % Base]

Playlist(uris, blocks) ==
    RawBlock(<<"playlist", [i \in DOMAIN uris |->
                              [uri |-> uris[i], duration |-> blocks[i].duration]]>>,
             PlaylistBytes + EntryBytes * Len(uris))

\* Mutant: the playlist's link takes the first segment's place.
PlaylistReplaces(link, links) ==
    IF links = <<>> THEN <<link>> ELSE ReplaceAt(links, 1, link)
\* links.insert(0, ...)
PlaylistFirst(link, links) == <<link>> \o links

\* HLSContainer::new
HLSContainer(blocks) ==
    LET highest == Max({0} \cup {blocks[i].sequence : i \in DOMAIN blocks})
        names == Map(LAMBDA segment : SegmentName(segment.sequence, Digits(highest)), blocks)
        links == [i \in DOMAIN blocks |->
                    [name |-> names[i], cid |-> blocks[i].cid, size |-> blocks[i].bytes]]
        playlist == Playlist(names, blocks) IN
    [playlist |-> playlist,
     directory |-> DirectoryBlock(
        PlaylistFirst(Link(<<"index.m3u8">>, playlist, playlist.bytes), links)),
     sequence |-> Len(blocks)]

HLSBlocksDirectory(h) == {h.directory}          \* mutant
HLSBlocks(h) == {h.playlist, h.directory}

\* HLSPlayer::from_hls; the page holds the cids of the video and the script.
HLSPlayer(h, dist) ==
    LET html == RawBlock(<<"html", h.directory, dist.root>>, HtmlBytes) IN
    [html |-> html,
     sequence |-> h.sequence,
     directory |-> DirectoryBlock(
        <<Link(<<"index.html">>, html, html.bytes),
          Link(<<"video">>, h.directory, DirectorySize(h.directory)),
          Link(<<"main.js">>, dist.root, ScriptSize(dist))>>)]

PlayerBlocks(p) == {p.html, p.directory}
ScriptBlocks(file) == {file.root} \cup ToSet(file.parts)
-----------------------------------------------------------------------------
Init ==
    /\ pc = "ready"
    /\ \E n \in ScriptLengths : main_js = [i \in 1 .. n |-> i]
    /\ script = MultiRawBlockFile(main_js)
    /\ container = <<>>
    /\ hls = None /\ player = None

\* HLSPlayerDist::new ends, once every block of the script passed its assertion.
NewDist ==
    /\ pc = "ready"
    /\ pc' = IF \A block \in ScriptBlocks(script) : Fits(block) THEN "running" ELSE "panicked"
    /\ UNCHANGED <<main_js, script, container, hls, player>>

\* Ingest appends a segment to the container.
Segment(bytes) ==
    /\ pc = "running"
    /\ Len(container) < MaxSegments
    /\ container' = Append(container,
        [cid |-> RawBlock(<<"segment", bytes>>, bytes), bytes |-> bytes,
         duration |-> bytes, sequence |-> Len(container)])
    /\ UNCHANGED <<pc, main_js, script, hls, player>>

\* publish_media_container packages the container; an assertion ends the node.
Publish ==
    /\ pc = "running"
    /\ LET h == HLSContainer(container)
           p == HLSPlayer(h, script) IN
        IF \A block \in HLSBlocks(h) \cup PlayerBlocks(p) : Fits(block)
        THEN hls' = h /\ player' = p /\ UNCHANGED pc
        ELSE pc' = "panicked" /\ UNCHANGED <<hls, player>>
    /\ UNCHANGED <<main_js, script, container>>

Next == NewDist \/ (\E bytes \in SegmentLengths : Segment(bytes)) \/ Publish

Spec == Init /\ [][Next]_vars
-----------------------------------------------------------------------------
Published == player # None

Entries == hls.playlist.content[2]

Named(directory, name) == {i \in DOMAIN directory.links : directory.links[i].name = name}

\* Byte order of two segment names, which share the prefix and the suffix.
Before(s, t) ==
    \/ \E k \in DOMAIN s \cap DOMAIN t :
        /\ k > 1 /\ s[k] < t[k]
        /\ \A j \in 2 .. k - 1 : s[j] = t[j]
    \/ Len(s) < Len(t) /\ \A j \in 2 .. Len(s) : s[j] = t[j]

\* The blocks the node was handed for a player.
Held ==
    PlayerBlocks(player) \cup HLSBlocks(hls) \cup ScriptBlocks(script)
        \cup {container[i].cid : i \in DOMAIN container}

(***************************************************************************)
(* main.js is read back whole from its parts, in link order, and the       *)
(* lengths the file announces are those of its parts                       *)
(* (MultiRawBlockFile::from_bytes).                                        *)
(***************************************************************************)
ScriptReadsBack ==
    LET links == script.root.links
        bytes == FlattenSeq(Map(LAMBDA link : link.cid.content[2], links)) IN
    /\ bytes = main_js
    /\ script.root.content[3] = Len(bytes)
    /\ script.root.content[2] = Map(LAMBDA link : link.cid.bytes, links)
    /\ \A i \in 1 .. Len(links) - 1 : links[i].cid.bytes = BLOCK_MAX_BYTES

(***************************************************************************)
(* Each entry of the playlist names one file of its directory, the files   *)
(* are segments of the stream in play order, and nothing else but the      *)
(* playlist is in the directory (HLSContainer::new inserts the playlist    *)
(* first).                                                                 *)
(***************************************************************************)
PlaylistResolves ==
    Published =>
        LET entries == Entries
            files == [i \in DOMAIN entries |-> Named(hls.directory, entries[i].uri)] IN
        /\ \A i \in DOMAIN entries : \E k \in files[i] :
            /\ files[i] = {k}
            /\ hls.directory.links[k].cid = container[i].cid
            /\ entries[i].duration = container[i].duration
        /\ \E k \in Named(hls.directory, <<"index.m3u8">>) :
            /\ hls.directory.links[k].cid = hls.playlist
            /\ DOMAIN hls.directory.links = {k} \cup UNION {files[i] : i \in DOMAIN entries}

(***************************************************************************)
(* A directory listing sorted by name is in play order: numbers of a       *)
(* stream are padded to one width, also where the number of digits grows.  *)
(***************************************************************************)
NamesInPlayOrder ==
    Published =>
        LET entries == Entries IN
        \A i, j \in DOMAIN entries : i < j => Before(entries[i].uri, entries[j].uri)

(***************************************************************************)
(* The size a link states, and the size logged for the player, are the     *)
(* bytes below it, counted as often as they are linked:                    *)
(* Package::total_size, added up over three levels of packages.            *)
(***************************************************************************)
SizesExact ==
    Published =>
        LET size[block \in Held] ==
                block.bytes + Total(Map(LAMBDA link : size[link.cid], block.links)) IN
        /\ \A block \in Held : \A i \in DOMAIN block.links :
            block.links[i].size = size[block.links[i].cid]
        /\ DirectorySize(player.directory) = size[player.directory]

(***************************************************************************)
(* Whoever holds the player's cid can fetch everything: the blocks handed  *)
(* to the node are closed under links, and the page names the video and    *)
(* the script that its own directory links.                                *)
(***************************************************************************)
PlayerComplete ==
    Published =>
        LET target(name) ==
                {player.directory.links[i].cid : i \in Named(player.directory, name)} IN
        /\ player.directory \in Held
        /\ \A block \in Held : \A i \in DOMAIN block.links : block.links[i].cid \in Held
        /\ target(<<"index.html">>) = {player.html}
        /\ target(<<"video">>) = {player.html.content[2]}
        /\ target(<<"main.js">>) = {player.html.content[3]}
=============================================================================
