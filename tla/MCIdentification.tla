-------------------------- MODULE MCIdentification --------------------------
(* Every normalized query of up to three tokens, from the two symbols, the    *)
(* article, the short stopword "va", a placeholder and an ordinary word, and  *)
(* one with two dashes in a row; a catalogue of six names, loaded in pieces,  *)
(* and one that replaces it.                                                  *)
EXTENDS Identification

MCWords == {"the", "va", "muse", "various", "&", "-"}
MCStopwords == {"the", "va"}
MCShortTokens == {"va"}
MCPlaceholders == {<<"various">>, <<"va", "various">>}
MCUselessKeys == {<<"various">>}
MCMaxPrefix == 3
MCLookupChunk == 1
MCInsertBatch == 2
MCQueries == {q \in BoundedSeq(MCWords, 3) : q # <<>> /\ q[1] # "-" /\ q[Len(q)] # "-"}
             \cup {<<"muse", "-", "-", "va">>}
MCQueryBatches == {{q} : q \in MCQueries} \cup {{<<"va", "muse">>, <<"muse", "va">>}}
MCDumps == {<<<<"va">>, <<"the", "muse">>, <<"muse", "&", "va">>, <<"various">>,
              <<"va", "various">>, <<"the", "muse", "muse">>>>,
            <<<<"muse", "muse">>, <<"the">>, <<"va">>>>}
=============================================================================
