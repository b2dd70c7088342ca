---------------------------- MODULE RetrievalIndex ----------------------------
(***************************************************************************)
(* The retrieval indexer of the AI fabric                                  *)
(* (images/retrieval-indexer/indexer.py): it reads the corpus, puts its    *)
(* chunks into a Qdrant collection and into memory, and searches the one   *)
(* or the other.  Every request has a thread, and nothing a lock.  Each    *)
(* version of a document is one chunk.                                     *)
(***************************************************************************)
EXTENDS Naturals, Sequences, FiniteSets

CONSTANTS
  Doc,       \* documents of the corpus
  Versions,  \* bound on the versions of a document
  Indexer,   \* requests to reindex, and the start of the service
  Searcher,  \* searches
  Wanted,    \* how many results a search may ask for
  Batch      \* chunks of one request to Qdrant

ASSUME RetrievalAssumption ==
  Versions \in Nat /\ Batch \in Nat \ {0} /\ Wanted \subseteq 1..20

VARIABLES
  corpus,     \* [Doc -> version]
  collection, \* what Qdrant has: "none", "other" of another size, or "ours"
  points,     \* the chunks in it
  memory,     \* INDEXED_CHUNKS
  indexer,    \* [Indexer -> where it is, and what it has read]
  manifest,   \* corpus-manifest.json
  search,     \* [Searcher -> what it has found]
  reported,   \* history: chunks of an index that ended alone, with qdrant_indexed, if none has begun since
  settled     \* history: chunks of an index that ended alone, if none has begun since

retrievalVars ==
  <<corpus, collection, points, memory, indexer, manifest, search, reported, settled>>

NotIndexing == [at |-> "idle", chunks |-> {}, left |-> {}, ok |-> FALSE, alone |-> FALSE]
Due(inQdrant, inMemory) == [qdrant |-> inQdrant, local |-> inMemory]
NotSearching == [at |-> "idle", in |-> "none", limit |-> 0, found |-> {}, due |-> Due({}, {})]

Chunks == Doc \X (0..Versions)

\* Chunks are versions of documents; points are in a collection.
RetrievalTypeOK ==
  /\ corpus \in [Doc -> 0..Versions]
  /\ collection \in {"none", "other", "ours"}
  /\ points \subseteq Chunks /\ (collection # "ours" => points = {})
  /\ memory \subseteq Chunks /\ manifest \subseteq Chunks
  /\ indexer \in
       [Indexer -> [at : {"idle", "look", "delete", "create", "put", "manifest", "clear",
                          "extend"},
                    chunks : SUBSET Chunks, left : SUBSET Chunks, ok : BOOLEAN,
                    alone : BOOLEAN]]
  /\ \A s \in Searcher :
       /\ search[s].at \in {"idle", "ask", "local", "found"}
       /\ search[s].in \in {"none", "qdrant", "local"} /\ search[s].found \subseteq Chunks
       /\ search[s].limit \in 0..20
  /\ reported \subseteq settled /\ settled \subseteq Chunks

RetrievalInit ==
  /\ corpus = [d \in Doc |-> 0]
  /\ collection \in {"none", "other"} /\ points = {} /\ memory = {}
  /\ indexer = [i \in Indexer |-> NotIndexing] /\ manifest = {}
  /\ search = [s \in Searcher |-> NotSearching]
  /\ reported = {} /\ settled = {}

qdrant == <<collection, points>>
IndexerAt(i, r) == indexer' = [indexer EXCEPT ![i] = r]

-----------------------------------------------------------------------------
(* Indexing. *)

\* A document is edited; a search will not find what nobody has indexed.
EditDocument ==
  /\ \E d \in Doc : corpus[d] < Versions /\ corpus' = [corpus EXCEPT ![d] = @ + 1]
  /\ UNCHANGED <<qdrant, memory, indexer, manifest, search, reported, settled>>

\* discover_documents and chunk_documents.  No other index is now alone.
ReadCorpus(i) ==
  /\ indexer[i].at = "idle"
  /\ LET chunks == {<<d, corpus[d]>> : d \in Doc} IN
     indexer' = [j \in Indexer |->
       IF j = i THEN [at |-> "look", chunks |-> chunks, left |-> chunks, ok |-> TRUE,
                      alone |-> \A k \in Indexer : indexer[k].at = "idle"]
       ELSE [indexer[j] EXCEPT !.alone = FALSE]]
  /\ reported' = {} /\ settled' = {}
  /\ search' = [s \in Searcher |-> [search[s] EXCEPT !.due = Due({}, {})]]
  /\ UNCHANGED <<corpus, qdrant, memory, manifest>>

\* ensure_qdrant_collection: keeps one of the right size, and makes one otherwise.
LookForCollection(i) ==
  /\ indexer[i].at = "look"
  /\ IndexerAt(i, [indexer[i] EXCEPT !.at = CASE collection = "ours" -> "put"
                                               [] collection = "other" -> "delete"
                                               [] collection = "none" -> "create"])
  /\ UNCHANGED <<corpus, qdrant, memory, manifest, search, reported, settled>>

DeleteCollection(i) ==
  /\ indexer[i].at = "delete"
  /\ collection' = "none" /\ points' = {}
  /\ IndexerAt(i, [indexer[i] EXCEPT !.at = "create"])
  /\ UNCHANGED <<corpus, memory, manifest, search, reported, settled>>

\* Qdrant refuses to create what is there, which ends the upsert.
CreateCollection(i) ==
  /\ indexer[i].at = "create"
  /\ IF collection = "none"
       THEN /\ collection' = "ours"
            /\ IndexerAt(i, [indexer[i] EXCEPT !.at = "put"])
       ELSE /\ IndexerAt(i, [indexer[i] EXCEPT !.at = "manifest", !.ok = FALSE])
            /\ UNCHANGED collection
  /\ UNCHANGED <<corpus, points, memory, manifest, search, reported, settled>>

\* A batch of points, under ids made of path and text; the old ones stay.
PutBatch(i) ==
  LET r == indexer[i] IN
  /\ r.at = "put" /\ collection = "ours"
  /\ \E b \in SUBSET r.left :
       /\ b # {} /\ (Cardinality(b) = Batch \/ (b = r.left /\ Cardinality(b) < Batch))
       /\ points' = points \cup b
       /\ IndexerAt(i, [r EXCEPT !.left = @ \ b,
                                 !.at = IF b = r.left THEN "manifest" ELSE "put"])
  /\ UNCHANGED <<corpus, collection, memory, manifest, search, reported, settled>>

\* Any request may fail: the index goes on without Qdrant, or, when the connection breaks
\* off while the answer is read, ends there.
QdrantFails(i) ==
  /\ indexer[i].at \in {"look", "delete", "create", "put"}
  /\ \/ IndexerAt(i, [indexer[i] EXCEPT !.at = "manifest", !.ok = FALSE])
     \/ IndexerAt(i, NotIndexing)
  /\ UNCHANGED <<corpus, qdrant, memory, manifest, search, reported, settled>>

WriteManifest(i) ==
  /\ indexer[i].at = "manifest"
  /\ manifest' = indexer[i].chunks
  /\ IndexerAt(i, [indexer[i] EXCEPT !.at = "clear"])
  /\ UNCHANGED <<corpus, qdrant, memory, search, reported, settled>>

\* Mutant of ClearMemory: the chunks of an index before stay.
KeepMemory(i) ==
  /\ indexer[i].at = "clear"
  /\ IndexerAt(i, [indexer[i] EXCEPT !.at = "extend"])
  /\ UNCHANGED <<corpus, qdrant, memory, manifest, search, reported, settled>>

\* INDEXED_CHUNKS.clear(), and then extend: a search in between finds nothing.
ClearMemory(i) ==
  /\ indexer[i].at = "clear"
  /\ memory' = {}
  /\ IndexerAt(i, [indexer[i] EXCEPT !.at = "extend"])
  /\ UNCHANGED <<corpus, qdrant, manifest, search, reported, settled>>

ExtendMemory(i) ==
  LET r == indexer[i] IN
  /\ r.at = "extend"
  /\ memory' = memory \cup r.chunks
  /\ reported' = IF r.alone /\ r.ok THEN r.chunks ELSE {}
  /\ settled' = IF r.alone THEN r.chunks ELSE {}
  /\ IndexerAt(i, NotIndexing)
  /\ UNCHANGED <<corpus, qdrant, manifest, search>>

-----------------------------------------------------------------------------
(* Searching. *)

\* The best n of what is there, or all if there are no more: which are best is the query's.
AreBest(hits, there, n) ==
  /\ hits \subseteq there
  /\ Cardinality(hits) = n \/ (hits = there /\ Cardinality(hits) < n)

\* search_qdrant, whose points may be of an earlier index.
SearchQdrant(s) ==
  /\ search[s].at = "idle"
  /\ \E n \in Wanted :
       LET r == [NotSearching EXCEPT !.due = Due(reported, settled), !.limit = n] IN
       \/ /\ collection = "ours"
          /\ \E hits \in SUBSET points :
               /\ AreBest(hits, points, n)
               /\ search' = [search EXCEPT ![s] = [r EXCEPT !.at = "found", !.in = "qdrant",
                                                            !.found = hits]]
       \/ search' = [search EXCEPT ![s] = [r EXCEPT !.at = "local"]]
  /\ UNCHANGED <<corpus, qdrant, memory, indexer, manifest, reported, settled>>

\* search_local, when Qdrant has failed.
SearchLocal(s) ==
  /\ search[s].at = "local"
  /\ \E hits \in SUBSET memory :
       /\ AreBest(hits, memory, search[s].limit)
       /\ search' = [search EXCEPT ![s] = [@ EXCEPT !.at = "found", !.in = "local",
                                                    !.found = hits]]
  /\ UNCHANGED <<corpus, qdrant, memory, indexer, manifest, reported, settled>>

EndSearch(s) ==
  /\ search[s].at = "found"
  /\ search' = [search EXCEPT ![s] = NotSearching]
  /\ UNCHANGED <<corpus, qdrant, memory, indexer, manifest, reported, settled>>

RetrievalNext ==
  \/ EditDocument
  \/ \E i \in Indexer :
       \/ ReadCorpus(i) \/ LookForCollection(i) \/ DeleteCollection(i) \/ CreateCollection(i)
       \/ PutBatch(i) \/ QdrantFails(i) \/ WriteManifest(i) \/ ClearMemory(i) \/ ExtendMemory(i)
  \/ \E s \in Searcher : SearchQdrant(s) \/ SearchLocal(s) \/ EndSearch(s)

RetrievalSpec == RetrievalInit /\ [][RetrievalNext]_retrievalVars

-----------------------------------------------------------------------------
(* What it promises. *)

\* Once an index has ended that no other overlapped, and until the next one begins, a search
\* misses nothing of what that one has read unless its answer is full: in Qdrant, if the
\* index reported qdrant_indexed, where chunks of earlier versions may fill the answer, for
\* they are never deleted; and in memory, where it finds nothing else; whatever indexes
\* overlapped, failed or deleted each other's collection before (build_index, search).
SearchFinds ==
  \A s \in Searcher : search[s].at = "found" =>
    LET due == search[s].due
        full == Cardinality(search[s].found) = search[s].limit
    IN /\ search[s].in = "qdrant" => due.qdrant \subseteq search[s].found \/ full
       /\ search[s].in = "local" /\ due.local # {} =>
            /\ search[s].found \subseteq due.local
            /\ search[s].found = due.local \/ full
=============================================================================
