------------------------- MODULE MCAccountingCapture -------------------------
(* Two companies; the first has a manual source and one for files. *)
EXTENDS AccountingCapture, TLC

MCSources == {"manual", "files", "other"}
MCCompany == [s \in MCSources |-> IF s = "other" THEN "c2" ELSE "c1"]
MCCapabilities ==
    [s \in MCSources |-> CASE s = "manual" -> {"tax", "invoice"}
                           [] s = "files" -> {"item", "invoice", "payment"}
                           [] OTHER -> {"tax"}]
MCForm(source, entity, label) ==
    [source |-> source, entity |-> entity, key |-> "k", label |-> label]
MCForms == {MCForm("manual", "tax", "b"), MCForm("other", "tax", "b"),
            MCForm("files", "invoice", "a"), MCForm("files", "item", "a")}
MCFile(content, entity, labels, names) ==
    [content |-> content, entity |-> entity, labels |-> labels, names |-> names,
     referenced |-> FALSE]
MCFiles == {MCFile("v1", "invoice", <<"a">>, "none"),
            MCFile("v2", "invoice", <<"b", "a">>, "none"),
            MCFile("p1", "payment", <<"a">>, "a"),
            MCFile("i1", "item", <<"a">>, "b")}
MCUploads == {<<"a">>, <<"a", "a">>, <<"a", "b">>}
Symmetry == Permutations(Requests)

=============================================================================
