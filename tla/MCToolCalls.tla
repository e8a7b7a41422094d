----------------------------- MODULE MCToolCalls -----------------------------
EXTENDS ToolCalls, TLC

CONSTANTS t1, t2, l1, l2

Symmetric == Permutations({t1, t2}) 

Tool(name) == [tool |-> name]

\* Tools of the MCP registry.
GatewayCallsHere ==
  {Tool("summon"), Tool("remember"), Tool("send_message"), Tool("upsert"),
   Tool("resolve"), Tool("delete_record"), Tool("delete_file"),
   [tool |-> "update_memory", id |-> 1, val |-> 1], [tool |-> "forget", id |-> 1],
   [tool |-> "update_sheet", field |-> "health", val |-> 1],
   [tool |-> "write_file", val |-> 2]}
  \cup {[tool |-> "mark", ids |-> ids, flag |-> f] :
          ids \in {{l1}, {l1, l2}}, f \in BOOLEAN}

DirectCallsHere ==
  {Tool("closeout"), Tool("summon"), Tool("upsert"), Tool("delete_record"),
   [tool |-> "forget", id |-> 1],
   [tool |-> "update_sheet", field |-> "spirit", val |-> 1],
   [tool |-> "mark", ids |-> {l1}, flag |-> TRUE],
   [tool |-> "update_prompts", sections |-> {"lane"}, val |-> 1],
   [tool |-> "update_prompts", sections |-> {"lane", "voice"}, val |-> 2]}

=============================================================================
