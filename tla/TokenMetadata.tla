---------------------------- MODULE TokenMetadata ----------------------------
(***************************************************************************)
(* Metadata of the membership tokens of contracts/manage_hub: attributes,  *)
(* their history, and the index by attribute and value that answers        *)
(* queries.  The tokens exist; descriptions and sizes are left out.  A     *)
(* batch is a sequence of set_token_metadata.                              *)
(***************************************************************************)
EXTENDS LedgerBase, SequencesExt

CONSTANTS
    Described,          \* ids of tokens
    Attributes, Values,
    MaxAttributes,      \* MAX_ATTRIBUTES_COUNT
    MaxMetadataVersion  \* bound

VARIABLES
    metadata,         \* DataKey Metadata
    metadataHistory,  \* DataKey MetadataHistory
    metadataIndex     \* DataKey MetadataIndex

metadataVars == <<metadata, metadataHistory, metadataIndex>>

\* A Map<String, MetadataValue>.
AttributeMaps == UNION {[keys -> Values] : keys \in SUBSET Attributes}

\* A TokenMetadata, None without one.
Records == [attributes : AttributeMaps, version : Nat]

ASSUME NoMetadataAssumption == None \notin Records

\* Keys of the index: an attribute and a value.
Entries == Attributes \X Values

MetadataInit ==
    /\ metadata = [t \in Described |-> None]
    /\ metadataHistory = [t \in Described |-> <<>>]
    /\ metadataIndex = [e \in Entries |-> {}]

Listed(map, e) == e[1] \in DOMAIN map /\ map[e[1]] = e[2]

\* The entries of the old attributes go, then those of the new ones come.
Reindexed(t, old, new) ==
    [e \in Entries |->
        (metadataIndex[e] \ {x \in {t} : Listed(old, e)}) \cup {x \in {t} : Listed(new, e)}]

Stored(t, attributes) ==
    LET version == IF metadata[t] = None THEN 1 ELSE metadata[t].version + 1 IN
    /\ version <= MaxMetadataVersion
    /\ Cardinality(DOMAIN attributes) <= MaxAttributes
    /\ metadata' = [metadata EXCEPT ![t] = [attributes |-> attributes, version |-> version]]

Recorded(t, changes) ==
    metadataHistory' = [metadataHistory EXCEPT ![t] =
        Append(@, [version |-> metadata'[t].version, changes |-> changes])]

SetTokenMetadata(t, attributes) ==
    LET old == IF metadata[t] = None THEN <<>> ELSE metadata[t].attributes IN
    /\ Stored(t, attributes)
    /\ Recorded(t, attributes)
    /\ metadataIndex' = Reindexed(t, old, attributes)

\* Variant: an attribute that changes keeps its old entry.
Nothing(t, updates) == <<>>

\* The attributes whose entries an update removes.
Superseded(t, updates) ==
    Restrict(metadata[t].attributes, DOMAIN metadata[t].attributes \cap DOMAIN updates)

Updated(attributes, updates) ==
    [k \in DOMAIN attributes \cup DOMAIN updates |->
        IF k \in DOMAIN updates THEN updates[k] ELSE attributes[k]]

UpdateTokenMetadata(t, updates) ==
    /\ metadata[t] # None
    /\ Stored(t, Updated(metadata[t].attributes, updates))
    /\ Recorded(t, updates)
    /\ metadataIndex' = Reindexed(t, Superseded(t, updates), updates)

\* A new version without an entry in the history.
RemoveMetadataAttributes(t, keys) ==
    LET old == metadata[t].attributes IN
    /\ metadata[t] # None
    /\ Stored(t, Restrict(old, DOMAIN old \ keys))
    /\ metadataIndex' = Reindexed(t, Restrict(old, DOMAIN old \cap keys), <<>>)
    /\ UNCHANGED metadataHistory

MetadataNext ==
    \E t \in Described :
        \/ \E map \in AttributeMaps : SetTokenMetadata(t, map) \/ UpdateTokenMetadata(t, map)
        \/ \E keys \in SUBSET Attributes : RemoveMetadataAttributes(t, keys)

MetadataSpec == MetadataInit /\ [][MetadataNext]_metadataVars

-----------------------------------------------------------------------------
QueryTokensByAttribute(e) == metadataIndex[e]

\* A query finds exactly the tokens that carry the attribute with the value,
\* after any sequence of replacements, updates and removals.
IndexExact ==
    \A e \in Entries : QueryTokensByAttribute(e) =
        {t \in Described : metadata[t] # None /\ Listed(metadata[t].attributes, e)}

\* The history accounts for what a token says of itself: versions increase,
\* and the value of every attribute is the one its last entry gave it,
\* although removals leave no entry.
HistoryExplains ==
    \A t \in Described : LET h == metadataHistory[t] IN
        /\ h # <<>> => metadata[t] # None /\ h[Len(h)].version <= metadata[t].version
        /\ \A i \in 1..Len(h) - 1 : h[i].version < h[i + 1].version
        /\ metadata[t] # None => \A k \in DOMAIN metadata[t].attributes :
              \E i \in 1..Len(h) :
                  /\ Listed(h[i].changes, <<k, metadata[t].attributes[k]>>)
                  /\ \A j \in i + 1..Len(h) : k \notin DOMAIN h[j].changes

\* Queries and history agree with the metadata: see the two parts.
MetadataConsistent == IndexExact /\ HistoryExplains
=============================================================================
