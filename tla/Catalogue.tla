----------------------------- MODULE Catalogue -----------------------------
(***************************************************************************)
(* The endpoints the portal documents (lib/docs/endpoints.ts), and the     *)
(* routes of the sandbox that answer for them (infra/mustang-mock).        *)
(* Constants only; endpoint and route are known by their path.             *)
(*                                                                         *)
(* Of an endpoint: what its body is, whether a file is part of it, the     *)
(* names of its other fields and of its query parameters, whether its path *)
(* ends in a storage key; and of its answer: the type, what the bytes are, *)
(* the name of the download, and the statuses beside success.              *)
(***************************************************************************)
EXTENDS Integers

NoBody == "none"            \* takes, of a GET
Json == "application/json"
Xml == "application/xml"
Plain == "text/plain"
Octets == "application/octet-stream"
Multipart == "multipart/form-data"
Original == "original MIME type"
Inline == "inline"          \* filename, of an answer that is no download

Get(path, type, content) ==
    [method |-> "GET", path |-> path, takes |-> NoBody, file |-> FALSE, fields |-> {},
     query |-> {}, keyed |-> FALSE, type |-> type, content |-> content,
     filename |-> Inline, errors |-> {}]
ByKey(e) == [e EXCEPT !.keyed = TRUE, !.errors = {404}]
Upload(path, query, fields, content, filename) ==
    [method |-> "POST", path |-> path, takes |-> Multipart, file |-> TRUE, fields |-> fields,
     query |-> query, keyed |-> FALSE, type |-> Octets, content |-> content,
     filename |-> filename, errors |-> {}]
Raw(path, takes, query, type, content, errors) ==
    [method |-> "POST", path |-> path, takes |-> takes, file |-> FALSE, fields |-> {},
     query |-> query, keyed |-> FALSE, type |-> type, content |-> content,
     filename |-> Inline, errors |-> errors]
Named(e, filename) == [e EXCEPT !.filename = filename]

Profiled == {"format", "profile", "version"}
-----------------------------------------------------------------------------
(* What is documented.                                                     *)
Ping == Get("/mustang/ping", Plain, "text")
Notice == Get("/mustang/notice", Plain, "text")
XmlToPdf == Upload("/mustang/xmltopdf", {}, {}, "pdf", "invoice.pdf")
XmlToHtml == Upload("/mustang/xmltohtml", {"language"}, {}, "html", "invoice.html")
ReportToPdf ==
    [Upload("/mustang/validationReportToPDF", {}, {"XMLValidationResult"}, "pdf", "report.pdf")
     EXCEPT !.file = FALSE]
Validate == Upload("/mustang/validate", {"ignoreNotices"}, {}, "xml", "validation.xml")
StyledInvoice ==
    Named(Raw("/mustang/styledinvoicetofx", Json, {"language"}, Octets, "pdf", {400}), "facturx.pdf")
Phive == Upload("/mustang/phive", {"VESID"}, {}, "xml", "phive.xml")
PdfToPdfA == Upload("/mustang/pdf2pdfa", {}, {}, "pdf", "output-pdfa.pdf")
Parse == Upload("/mustang/parse", {}, {}, "xml", "parsed.xml")
InvoiceToXml == Raw("/mustang/invoice2XML", Json, Profiled, Xml, "xml", {400})
Extract == Upload("/mustang/extract", {}, {}, "xml", "extracted.xml")
Detach == [Upload("/mustang/detach", {}, {}, "json", Inline) EXCEPT !.type = Json]
Combine == Upload("/mustang/combine", Profiled, {"json"}, "pdf", "combined.pdf")
CombineXml == Upload("/mustang/combineXML", Profiled, {"XML"}, "pdf", "combined.pdf")
CiiToUbl == Raw("/mustang/ciitoubl", Xml, {}, Xml, "xml", {})
CiiToUblAlias == Raw("/mustang/cii2ubl", Xml, {}, Xml, "xml", {})
Calculate == Raw("/mustang/calculate", Json, {}, Json, "json", {400})
S3Upload == [Upload("/s3/upload", {}, {}, "json", Inline) EXCEPT !.type = Json]
S3List == Get("/s3/list", Json, "json")
S3Download == Named(ByKey(Get("/s3/download", Original, "file")), "original filename")
S3Delete == ByKey(Get("/s3/delete", Json, "json"))

Endpoints ==
    {Ping, Notice, XmlToPdf, XmlToHtml, ReportToPdf, Validate, StyledInvoice, Phive, PdfToPdfA,
     Parse, InvoiceToXml, Extract, Detach, Combine, CombineXml, CiiToUbl, CiiToUblAlias,
     Calculate, S3Upload, S3List, S3Download, S3Delete}
-----------------------------------------------------------------------------
(* What is served: the parts of a multipart body a route's interceptor     *)
(* lets in ("any", or the one named; "none" where there is no interceptor),*)
(* the fields and query parameters its handler reads, and its answer.      *)
Serves(method, path, lets, fields, query, type, filename) ==
    [method |-> method, path |-> path, lets |-> lets, fields |-> fields, query |-> query,
     type |-> type, filename |-> filename]
SendsAsPdf(path, fields, query, filename) ==               \* mutant: a type of its own
    Serves("POST", path, "any", fields, query, "application/pdf", filename)
SendsBinary(path, fields, query, filename) ==
    Serves("POST", path, "any", fields, query, Octets, filename)

RoutesToReports ==
    {Serves("GET", "/mustang/ping", "none", {}, {}, Plain, Inline),
     Serves("GET", "/mustang/notice", "none", {}, {}, Plain, Inline),
     SendsBinary("/mustang/xmltopdf", {}, {}, "invoice.pdf"),
     SendsBinary("/mustang/xmltohtml", {}, {"language"}, "invoice.html"),
     SendsBinary("/mustang/validationReportToPDF", {"XMLValidationResult"}, {}, "report.pdf"),
     SendsBinary("/mustang/validate", {}, {"ignoreNotices"}, "validation.xml"),
     Serves("POST", "/mustang/styledinvoicetofx", "none", {}, {"language"}, Octets, "facturx.pdf"),
     SendsBinary("/mustang/phive", {}, {"VESID"}, "phive.xml")}
RoutesToInvoices ==
    {SendsBinary("/mustang/pdf2pdfa", {}, {}, "output-pdfa.pdf"),
     SendsBinary("/mustang/parse", {}, {}, "parsed.xml"),
     Serves("POST", "/mustang/invoice2XML", "none", {}, Profiled, Xml, Inline),
     SendsBinary("/mustang/extract", {}, {}, "extracted.xml"),
     Serves("POST", "/mustang/detach", "any", {}, {}, Json, Inline),
     SendsBinary("/mustang/combine", {"json"}, Profiled, "combined.pdf"),
     SendsBinary("/mustang/combineXML", {"XML"}, Profiled, "combined.pdf"),
     Serves("POST", "/mustang/ciitoubl", "none", {}, {}, Xml, Inline),
     Serves("POST", "/mustang/cii2ubl", "none", {}, {}, Xml, Inline),
     Serves("POST", "/mustang/calculate", "none", {}, {}, Json, Inline)}
RoutesToFiles ==
    {Serves("POST", "/s3/upload", "file", {}, {}, Json, Inline),
     Serves("GET", "/s3/list", "none", {}, {}, Json, Inline),
     Serves("GET", "/s3/download", "none", {}, {}, Original, "original filename"),
     Serves("GET", "/s3/delete", "none", {}, {}, Json, Inline)}
Served == RoutesToReports \cup RoutesToInvoices \cup RoutesToFiles

(* The bytes MustangService makes up, and S3Service's answers.             *)
Payload(path) ==
    CASE path \in {"/mustang/ping", "/mustang/notice"} -> "text"
      [] path \in {"/mustang/xmltopdf", "/mustang/validationReportToPDF", "/mustang/pdf2pdfa",
                   "/mustang/styledinvoicetofx", "/mustang/combine", "/mustang/combineXML"} -> "pdf"
      [] path = "/mustang/xmltohtml" -> "html"
      [] path \in {"/mustang/validate", "/mustang/phive", "/mustang/parse", "/mustang/extract",
                   "/mustang/invoice2XML", "/mustang/ciitoubl", "/mustang/cii2ubl"} -> "xml"
      [] path = "/s3/download" -> "file"
      [] OTHER -> "json"

(* Nest answers a POST with 201 unless told otherwise, and it is not.      *)
Success(method) == IF method = "POST" THEN 201 ELSE 200

(* The route that answers a request built for endpoint e, if there is one. *)
RouteOf(e) == CHOOSE r \in Served : r.method = e.method /\ r.path = e.path
IsServed(e) == \E r \in Served : r.method = e.method /\ r.path = e.path

(* What is sent is let in and read: multer refuses a file that comes under *)
(* another name, a handler ignores what it does not ask for.               *)
Understands(r, e) ==
    /\ e.file => r.lets \in {"any", "file"}
    /\ e.takes = Multipart => r.lets # "none"
    /\ e.fields \subseteq r.fields
    /\ e.query \subseteq r.query
=============================================================================
