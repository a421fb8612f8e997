------------------------- MODULE MCEvidenceSelection -------------------------
EXTENDS EvidenceSelection

Chunk(type, source, parent, ordinal, terms) ==
    [type |-> type, source |-> source, parent |-> parent, ordinal |-> ordinal,
     locator |-> NoLocator,
     entity |-> NoEntity, anchored |-> FALSE, current |-> TRUE, terms |-> terms]

(* A page of two chunks, a file with an identifier, a ticket and a piece   *)
(* of its past.                                                            *)
Intro == [Chunk("PAGE", "guide", "guide", 1, {"layout"}) EXCEPT !.entity = "till"]
Detail == [Chunk("PAGE", "guide", "guide", 3, {"count"}) EXCEPT !.entity = "till",
                                                                !.locator = "totals"]
Source == [Chunk("CODE", "printer", NoParent, 0, {}) EXCEPT !.anchored = TRUE]
Ticket == Chunk("ISSUE", "POS-1", NoParent, 0, {})
Past == [Chunk("ISSUE", "POS-1", NoParent, 1, {"layout"}) EXCEPT !.current = FALSE]
MCDocs == {Intro, Detail, Source, Ticket, Past}

Plain == [intent |-> "CODE_ASSISTED", scope |-> {"PAGE", "CODE"},
          queries |-> <<"question">>, slot |-> 0,
          listing |-> FALSE, procedural |-> FALSE, single |-> FALSE, status |-> FALSE,
          asked |-> NoEntity, uncertain |-> FALSE, needs |-> <<>>,
          titled |-> {}, sections |-> <<>>, direct |-> FALSE,
          located |-> {}, listed |-> {}]
Of(intent, scope) == [Plain EXCEPT !.intent = intent, !.scope = scope]

MCRequests == {
    [Plain EXCEPT !.needs = <<Term("layout"), Term("count")>>,
                  !.queries = <<"question", "">>, !.slot = 2],
    [Plain EXCEPT !.asked = "kiosk", !.procedural = TRUE],
    [Plain EXCEPT !.single = TRUE, !.scope = {}],
    [Of("CROSS_SOURCE", {"PAGE", "CODE"}) EXCEPT !.titled = {Intro, Detail}],
    [Of("IMPLEMENTATION", {"CODE"}) EXCEPT !.located = {Source}],
    [Of("DELIVERY", {"ISSUE"}) EXCEPT !.status = TRUE, !.titled = {Ticket, Past}],
    [Of("DELIVERY", {"ISSUE"}) EXCEPT !.sections = <<Past>>],
    [Of("DELIVERY", {"ISSUE"}) EXCEPT !.direct = TRUE, !.status = TRUE],
    [Of("STRUCTURED_INVENTORY", {"PAGE", "CODE"}) EXCEPT !.listing = TRUE,
                                             !.needs = <<Term("layout")>>],
    [Plain EXCEPT !.uncertain = TRUE, !.needs = <<Term("layout")>>],
    [Of("STRUCTURED_ENTITY", {}) EXCEPT !.uncertain = TRUE],
    [Plain EXCEPT !.sections = <<Ticket, Past>>],
    Of("ENTITY_OVERVIEW", {"PAGE"}),
    [Of("FEATURE_INVENTORY", {"PAGE"}) EXCEPT !.listed = {Intro, Detail}],
    [Of("CODE_INVENTORY", {"CODE"}) EXCEPT !.listed = {Source}],
    [Of("PROJECT_OVERVIEW", {}) EXCEPT !.listed = {Intro, Ticket}] }
=============================================================================
