---------------------------- MODULE Identification ----------------------------
(***************************************************************************)
(* identification/ and the part of parsing/reprocess_command.py that uses  *)
(* it: what a query resolves to, and the batches of queries whose possible *)
(* artists are looked up chunk by chunk in the catalogue table while the   *)
(* catalogue command replaces that table.                                  *)
(*                                                                         *)
(* A text is the sequence of its tokens: normalize_query, which makes one  *)
(* of a raw query, is abstracted away, and so are the letters of a token.  *)
(* The symbols "-" and "&" are tokens of their own when they stand alone.  *)
(***************************************************************************)
EXTENDS Integers, Sequences, FiniteSets, SequencesExt, FiniteSetsExt

CONSTANTS Stopwords,       \* COMMON_PREFIX_STOPWORDS
          ShortTokens,     \* tokens under MINIMUM_SINGLE_TOKEN_PREFIX_LENGTH
          Placeholders,    \* CATALOGUE_PLACEHOLDERS
          UselessKeys,     \* keys that _is_useful_key refuses: PLACEHOLDER_KEYS, a letter
          MaxPrefix,       \* MAXIMUM_PREFIX_TOKENS
          LookupChunk,     \* CATALOGUE_LOOKUP_CHUNK
          InsertBatch,     \* INSERT_BATCH_SIZE of the loader
          QueryBatches,    \* bound: batches, each the set of its normalized queries
          Dumps            \* bound: dumps, each the sequence of its names

Queries == UNION QueryBatches

ASSUME IdentificationAssumption ==
    /\ {MaxPrefix, LookupChunk, InsertBatch} \subseteq Nat \ {0}
    /\ \A text \in Queries \cup Dumps : text \in Seq(Range(text))
    /\ {} \notin QueryBatches
    /\ \A q \in Queries : q # <<>> /\ q[1] # "-" /\ q[Len(q)] # "-"
-----------------------------------------------------------------------------
Prefix(s, n) == SubSeq(s, 1, n)

\* build_artist_key.
Key(name) ==
    LET bare == IF Len(name) > 1 /\ name[1] = "the" THEN Tail(name) ELSE name
    IN SelectSeq([i \in DOMAIN bare |-> IF bare[i] = "&" THEN "and" ELSE bare[i]],
                 LAMBDA t : t # "-")

\* The tokens of a query that have a letter or a digit.
Tokens(q) == SelectSeq(q, LAMBDA t : t \notin {"-", "&"})

PrefixLengths(q) == 1..Min({Len(Tokens(q)), MaxPrefix})

\* Mutant: the longest prefix is forgotten.
CandidateArtistKeysShort(q) ==
    {Key(Prefix(Tokens(q), n)) : n \in {m \in PrefixLengths(q) : m + 1 \in PrefixLengths(q)}}

CandidateArtistKeys(q) == {Key(Prefix(Tokens(q), n)) : n \in PrefixLengths(q)} \ {<<>>}

\* A prefix that is taken for the artist if the catalogue has it.
Trusted(q, n) ==
    /\ Key(Prefix(Tokens(q), n)) \notin Placeholders \cup {<<>>}
    /\ ~(n = 1 /\ Len(Tokens(q)) > 1 /\ Tokens(q)[1] \in ShortTokens \cup Stopwords)

Matches(q, catalogue) ==
    {n \in PrefixLengths(q) : Trusted(q, n) /\ Key(Prefix(Tokens(q), n)) \in catalogue}

\* Confidences are told apart by MINIMUM_CHART_CONFIDENCE only.
Parsed(artist, track, charted) == [artist |-> artist, track |-> track, charted |-> charted]

\* The dashes that SEPARATOR_PATTERN finds: a separator takes the space after it, so
\* that of dashes in a row the first, the third and so on separate.
Separators(q) ==
    {i \in DOMAIN q : \E first \in 1..i : /\ first = 1 \/ q[first - 1] # "-"
                                         /\ \A j \in first..i : q[j] = "-"
                                         /\ (i - first) % 2 = 0}

\* parse_search_query, of queries without an album marker: the fragments before
\* the first and after the last separator.
ParseSearchQuery(q) ==
    IF Separators(q) = {} THEN Parsed(q, <<>>, FALSE)
    ELSE Parsed(Prefix(q, Min(Separators(q)) - 1),
                SubSeq(q, Max(Separators(q)) + 1, Len(q)), TRUE)

ResolvedAt(q, n) == Parsed(Prefix(Tokens(q), n), SubSeq(Tokens(q), n + 1, Len(Tokens(q))), TRUE)

\* resolve: the catalogue is tried from the longest prefix down.
Resolve(q, catalogue) == IF Matches(q, catalogue) # {}
                         THEN ResolvedAt(q, Max(Matches(q, catalogue)))
                         ELSE ParseSearchQuery(q)
-----------------------------------------------------------------------------
VARIABLES catalogue,   \* keys in musicbrainz_artists
          loading,     \* a load is in progress
          remaining    \* names of its dump still to insert

VARIABLES batch,       \* queries of the batch, {} between batches
          missing,     \* its candidate keys not looked up yet
          known,       \* keys found so far
          rows         \* what the last step inserted: queries and what they parse to

\* History, for the properties only.
VARIABLES throughout,  \* keys the table has held since the batch was begun
          ever         \* keys it has held at some time since

loader == <<catalogue, loading, remaining>>
lookup == <<batch, missing, known>>
window == <<throughout, ever>>
identification_vars == <<loader, lookup, rows, window>>

AllKeys == {Key(name) : name \in UNION {Range(dump) : dump \in Dumps}}

IdentificationTypeOK ==
    /\ catalogue \subseteq AllKeys \ UselessKeys
    /\ loading \in BOOLEAN
    /\ \E dump \in Dumps \cup {<<>>} : IsSuffix(remaining, dump)
    /\ ~loading => remaining = <<>>
    /\ batch \in QueryBatches \cup {{}}
    /\ missing \subseteq UNION {CandidateArtistKeys(q) : q \in batch}
    /\ known \subseteq ever
    /\ \A row \in rows :
          /\ row.query \in Queries
          /\ \/ row.parsed = ParseSearchQuery(row.query)
             \/ \E n \in PrefixLengths(row.query) : row.parsed = ResolvedAt(row.query, n)
    /\ throughout \subseteq ever /\ ever \subseteq AllKeys

IdentificationInit ==
    /\ catalogue = {} /\ loading = FALSE /\ remaining = <<>>
    /\ batch = {} /\ missing = {} /\ known = {} /\ rows = {}
    /\ throughout = {} /\ ever = {}
-----------------------------------------------------------------------------
\* A step of the loader, after which the table holds these keys.
Held(keys) == /\ catalogue' = keys
              /\ throughout' = IF batch = {} THEN {} ELSE throughout \cap keys
              /\ ever' = IF batch = {} THEN {} ELSE ever \cup keys
              /\ rows' = {}
              /\ UNCHANGED lookup

\* load_catalogue up to its loop.
BeginLoad == /\ ~loading
             /\ loading' = TRUE
             /\ remaining' \in Dumps
             /\ Held({})

\* Mutant: every name of the dump is inserted.
UsefulOrNot(key) == TRUE

\* _is_useful_key.
Useful(key) == key \notin UselessKeys \cup {<<>>}

\* As many names as it takes to fill a batch with useful keys, or all of them.
Full(n) == Cardinality({i \in 1..n : Useful(Key(remaining[i]))}) = InsertBatch
BatchSize == Min({n \in 1..Len(remaining) : Full(n)} \cup {Len(remaining)})

BatchKeys == {k \in {Key(remaining[i]) : i \in 1..BatchSize} : Useful(k)}

\* The next batch is read and inserted.
InsertNames == /\ loading /\ remaining # <<>>
               /\ Held(catalogue \cup BatchKeys)
               /\ remaining' = SubSeq(remaining, BatchSize + 1, Len(remaining))
               /\ UNCHANGED loading

\* Its insert fails, after storing any part of it, and the load ends with it.
InsertFails == /\ loading /\ remaining # <<>>
               /\ \E stored \in SUBSET BatchKeys : Held(catalogue \cup stored)
               /\ loading' = FALSE /\ remaining' = <<>>

\* The load ends, with everything inserted or where the dump could not be read.
EndLoad == /\ loading
           /\ loading' = FALSE /\ remaining' = <<>>
           /\ Held(catalogue)
-----------------------------------------------------------------------------
\* A batch is full; build_batch_catalogue, up to its loop, or --no-catalogue.
BeginBatch == /\ batch = {}
              /\ \E queries \in QueryBatches, useCatalogue \in BOOLEAN :
                    /\ batch' = queries
                    /\ missing' = IF useCatalogue
                                  THEN UNION {CandidateArtistKeys(q) : q \in queries} ELSE {}
                    /\ throughout' = IF useCatalogue THEN catalogue ELSE {}
                    /\ ever' = catalogue
              /\ known' = {} /\ rows' = {}
              /\ UNCHANGED loader

\* One CATALOGUE_LOOKUP.
LookUp == /\ missing # {}
          /\ \E keys \in kSubset(Min({LookupChunk, Cardinality(missing)}), missing) :
                /\ known' = known \cup (keys \cap catalogue)
                /\ missing' = missing \ keys
          /\ UNCHANGED <<batch, rows, loader, window>>

\* _flush_batch.
FlushQueries == /\ batch # {} /\ missing = {}
                /\ rows' = {[query |-> q, parsed |-> Resolve(q, known)] : q \in batch}
                /\ batch' = {} /\ known' = {}
                /\ UNCHANGED <<missing, loader, window>>

IdentificationNext ==
    BeginLoad \/ InsertNames \/ InsertFails \/ EndLoad \/ BeginBatch \/ LookUp \/ FlushQueries

IdentificationSpec == IdentificationInit /\ [][IdentificationNext]_identification_vars
-----------------------------------------------------------------------------
\* What a row would be against a table that held these keys.
AgreesWith(row, n) == row.parsed = ResolvedAt(row.query, n)

\* "The same keys resolve_with_catalogue tests": looking up only a batch's own
\* candidates, in chunks and while the table is replaced, a row names the longest
\* artist that the table held all the while, or a longer one that it held at some
\* time; only a row for which it held none all the while is left to the separators.
RowsMatchTheTable ==
    \A row \in rows :
        LET sure == Matches(row.query, throughout)
            seen == Matches(row.query, ever)
        IN \/ \E n \in seen : AgreesWith(row, n) /\ \A m \in sure : m <= n
           \/ sure = {} /\ row.parsed = ParseSearchQuery(row.query)

\* resolver.py: "query prefixes are keyed the same way before lookup": a query that
\* is the name of an artist in the table, in any spelling that has the artist's
\* key, is resolved to that artist.
NamesAreResolved ==
    \A row \in rows :
        /\ Key(row.query) \in throughout \ Placeholders
        /\ Len(row.query) <= MaxPrefix
        => Key(row.parsed.artist) = Key(row.query)
=============================================================================
