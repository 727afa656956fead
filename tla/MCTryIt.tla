------------------------------ MODULE MCTryIt ------------------------------
(* TryIt on small instances: two panels, one of them often for files.      *)
EXTENDS TryIt

CONSTANTS p1, p2, c1

TestKey == [env |-> "test", genuine |-> TRUE]
LiveKey == [env |-> "live", genuine |-> TRUE]
NoSuchKey == [env |-> "test", genuine |-> FALSE]

\* Two files of one name.
TwoFiles == {[name |-> "x", type |-> Octets, empty |-> FALSE],
             [name |-> "x", type |-> Octets, empty |-> TRUE]}

\* The live key in the one header, the sandbox's in the other.
InApikey(text) == [authorization |-> NoBearer, apikey |-> text]
OneHeaderEach ==
    {InApikey(LiveKey), Keyless,
     [authorization |-> [scheme |-> "Bearer", key |-> LiveKey], apikey |-> TestKey]}

At(page, keys) == [page |-> page, pasted |-> keys, curled |-> {}, deployed |-> TRUE,
                   edited |-> FALSE, sends |-> 2, cuts |-> 1, restarts |-> 0]
Two(e, f) == [p \in Panels |-> IF p = p1 THEN e ELSE f]

\* Each endpoint, with the sandbox's key.
Catalogued ==
    {At(page, {TestKey}) : page \in
        {Two(Ping, Notice), Two(XmlToPdf, XmlToHtml), Two(ReportToPdf, Validate),
         Two(StyledInvoice, Phive), Two(PdfToPdfA, Parse), Two(InvoiceToXml, Extract),
         Two(Detach, Combine), Two(CombineXml, CiiToUbl), Two(CiiToUblAlias, Calculate),
         Two(S3List, S3Upload)}}

\* Keys of all sorts; a file put, read and deleted, with a restart between; the first
\* deployment, and that of an edit, with calls under way.
Keyed == At(Two(Ping, StyledInvoice), {TestKey, LiveKey, NoSuchKey})
Stored ==
    {[At(Two(S3Upload, e), {TestKey}) EXCEPT !.sends = 3, !.cuts = 0, !.restarts = 1] :
        e \in {S3Download, S3Delete}}
Deployed ==
    {[At(Two(Ping, Ping), {TestKey})
      EXCEPT !.curled = OneHeaderEach, !.deployed = b, !.edited = TRUE, !.sends = 1, !.cuts = 0] : b \in BOOLEAN}

AllInstances == Catalogued \cup {Keyed} \cup Stored \cup Deployed
=============================================================================
