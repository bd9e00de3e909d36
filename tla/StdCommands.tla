----------------------------- MODULE StdCommands -----------------------------
(***************************************************************************)
(* The commands of crates/cmds-std: constants, JSON and lists, key-value   *)
(* stores, storage, PostgREST queries and HTTP requests.  None of them has *)
(* instructions; what they can do wrong is to ask for what the definition  *)
(* does not require, and to return less than it promises.                  *)
(***************************************************************************)
EXTENDS CommandDefs

\* const_cmd.rs: the value is read when the node is built
Const(x) ==
  LET required == {}
  IN  Plain(Def(required, {}, {}, {"Source"}, {}), required, {"Source"})

\* print_cmd.rs
PrintNode(x) ==
  LET required == {"print"}
  IN  Plain(Def(required, {}, {"print"}, {"__print_output"}, {}),
              required, {"__print_output"})

\* note.rs
Note(x) ==
  LET required == {}
  IN  Plain(Def(required, {}, {}, {}, {}), required, {})

\* wait_cmd.rs
Wait(x) ==
  LET required == {"value", "wait_for"}
  IN  Plain(Def(required, {"duration_ms"}, {"value", "wait_for"}, {}, {}),
              required, {})

\* flow_run_info.rs
FlowRunInfo(x) ==
  LET required == {}
  IN  Plain(Def(required, {}, {}, {"flow_owner", "started_by", "solana_net"}, {}),
              required, {"flow_owner", "started_by", "solana_net"})

\* json_extract.rs
JsonExtract(x) ==
  LET required == {"json_input", "field_path"}
  IN  [ Plain(Def(required, {}, {}, {"value", "trimmed_json"}, {}),
              required, {"value", "trimmed_json"}) EXCEPT !.asks = TRUE ]

\* json_insert.rs
JsonInsert(x) ==
  LET required == {"json_input", "path", "value"}
  IN  [ Plain(Def(required, {}, {"json_input", "value"}, {"updated_json"}, {}),
              required, {"updated_json"}) EXCEPT !.asks = TRUE ]

\* std/json_get_field.rs
JsonGetField(x) ==
  LET required == {"json_or_string", "field"}
      NoField == "the map has no such field"
  IN  [ Plain(Def(required, {}, {}, {"result_json", "result_string"}, {}),
              required, {"result_json", "result_string"}) EXCEPT
          !.facts = {NoField},
          !.refuses = NoField \in x ]

\* std/to_string.rs
ToStringNode(x) ==
  LET required == {}
  IN  Plain(Def(required, {"stringify"}, {}, {"result"}, {}),
              required, {"result"})

\* std/to_vec.rs
ToVec(x) ==
  LET required == {"first", "second"}
  IN  Plain(Def(required, {}, {}, {"result"}, {}), {"first"}, {"result"})

\* std/to_bytes.rs
ToBytes(x) ==
  LET required == {"string"}
  IN  Plain(Def(required, {}, {}, {"bytes"}, {}), required, {"bytes"})

\* A decimal that is divided by zero or overflows panics, and a length that is
\* negative or too large is an error.
StepIsZero == "step_by is zero"
TooFar == "the distance, or the number of steps, is no decimal"
BadLength == "the length is negative or too large"

\* std/range.rs
RangeNode(x) ==
  LET RangePanics(y) == ("step_by" \in y /\ StepIsZero \in y) \/ TooFar \in y
      required == {"start", "end"}
  IN  [ Plain(Def(required, {"step_by"}, {}, {"result"}, {}), required, {"result"}) EXCEPT
          !.facts = {StepIsZero, TooFar, BadLength},
          !.refuses = BadLength \in x /\ ~RangePanics(x),
          !.panics = RangePanics(x) ]

\* kvstore/create_store.rs
KvCreateStore(x) ==
  LET required == {"store"}
  IN  [ Plain(Def(required, {}, {"store"}, {}, {}), required, {}) EXCEPT
          !.asks = TRUE,
          !.jwt = TRUE,
          !.permitted = TRUE ]

\* kvstore/delete_store.rs
KvDeleteStore(x) ==
  LET required == {"store"}
  IN  [ Plain(Def(required, {}, {"store"}, {}, {}), required, {}) EXCEPT
          !.asks = TRUE,
          !.jwt = TRUE,
          !.permitted = TRUE ]

\* kvstore/write_item.rs
KvWriteItem(x) ==
  LET required == {"store", "key", "value"}
      Old == "there was a value"
  IN  [ Plain(Def(required,
                  {},
                  {"store", "key", "value"},
                  {"old_value"}, {"old_value"}),
              required, {"old_value"}) EXCEPT
          !.asks = TRUE,
          !.facts = {Old},
          !.final = IF Old \in x THEN {"old_value"} ELSE {},
          !.jwt = TRUE,
          !.permitted = TRUE ]

\* kvstore/read_item.rs
KvReadItem(x) ==
  LET required == {"store", "key"}
      Missing == "there is no such item"
  IN  [ Plain(Def(required, {"default"}, {}, {"value", "found"}, {}),
              required, {"value", "found"}) EXCEPT
          !.asks = TRUE,
          !.facts = {Missing},
          !.refuses = Missing \in x /\ "default" \notin x,
          !.jwt = TRUE,
          !.permitted = TRUE ]

\* kvstore/explorer.rs: its outputs are those of the node, a pinned item
\* that is not read is only logged
KvExplorer(x) ==
  LET required == {}
      Unread == "the pinned item was not read"
  IN  [ Plain(Def(required, {}, {}, {"Values", "KVS", "store/key"}, {}),
              required, {}) EXCEPT
          !.asks = TRUE,
          !.facts = {Unread},
          !.final = {"Values", "KVS"} \cup (IF Unread \in x THEN {} ELSE {"store/key"}),
          !.jwt = TRUE,
          !.permitted = TRUE ]

\* FileSpec: a key, or a bucket and a path.
FileSpec(x) == IF "key" \in x THEN {"key"} ELSE {"bucket", "path"}

\* storage/download.rs
StorageDownload(x) ==
  LET required == {}
  IN  [ Plain(Def(required,
                  {"key", "bucket", "path"},
                  {},
                  {"content", "content_type", "size"}, {}),
              required, {"content", "size", "content_type"}) EXCEPT
          !.asks = TRUE,
          !.needs = FileSpec(x),
          !.jwt = TRUE,
          !.permitted = TRUE ]

\* storage/delete.rs
StorageDelete(x) ==
  LET required == {}
  IN  [ Plain(Def(required, {"key", "bucket", "path"}, {}, {"key"}, {}),
              required, {"key"}) EXCEPT
          !.asks = TRUE,
          !.needs = FileSpec(x),
          !.jwt = TRUE,
          !.permitted = TRUE ]

\* storage/get_file_metadata.rs
StorageGetFileMetadata(x) ==
  LET required == {}
  IN  [ Plain(Def(required,
                  {"key", "bucket", "path"},
                  {},
                  {"key", "content_type", "last_modified"}, {}),
              required, {"key", "content_type", "last_modified"}) EXCEPT
          !.asks = TRUE,
          !.needs = FileSpec(x),
          !.jwt = TRUE,
          !.permitted = TRUE ]

\* storage/get_public_url.rs
StorageGetPublicUrl(x) ==
  LET required == {}
  IN  [ Plain(Def(required, {"key", "bucket", "path"}, {}, {"url"}, {}),
              required, {"url"}) EXCEPT !.needs = FileSpec(x) ]

\* storage/create_signed_url.rs
StorageCreateSignedUrl(x) ==
  LET required == {"expires_in"}
  IN  [ Plain(Def(required,
                  {"key", "bucket", "path", "transform", "download"},
                  {},
                  {"url"}, {}),
              {}, {"url"}) EXCEPT
          !.asks = TRUE,
          !.needs = {"expires_in"} \cup FileSpec(x),
          !.jwt = TRUE,
          !.permitted = TRUE ]

\* storage/list.rs
StorageList(x) ==
  LET required == {"bucket"}
  IN  [ Plain(Def(required, {"path"}, {}, {"files"}, {}), required, {"files"}) EXCEPT
          !.asks = TRUE,
          !.jwt = TRUE,
          !.permitted = TRUE ]

\* storage/upload.rs
StorageUpload(x) ==
  LET required == {"path", "content"}
  IN  [ Plain(Def(required,
                  {"bucket", "content_type", "overwrite"},
                  {},
                  {"key", "content_type"}, {}),
              required, {"key", "content_type"}) EXCEPT
          !.asks = TRUE,
          !.jwt = TRUE,
          !.permitted = TRUE ]

\* storage/explorer.rs: its outputs are those of the node
FileExplorer(x) ==
  LET required == {}
      Unset == "the form has no value for the output"
  IN  [ Plain(Def(required, {}, {}, {"file"}, {}), required, {}) EXCEPT
          !.facts = {Unset},
          !.final = IF Unset \in x THEN {} ELSE {"file"} ]

\* supabase/mod.rs
Supabase(x) ==
  LET required == {"input"}
  IN  [ Plain(Def(required, {}, {}, {"res"}, {}), {"string"}, {"res"}) EXCEPT
          !.asks = TRUE,
          !.jwt = TRUE,
          !.permitted = TRUE ]

\* postgrest/builder_eq.rs
BuilderEq(x) ==
  LET required == {"query", "column", "filter"}
  IN  Plain(Def(required, {}, {}, {"query"}, {}), required, {"query"})

\* postgrest/builder_neq.rs
BuilderNeq(x) ==
  LET required == {"query", "column", "filter"}
  IN  Plain(Def(required, {}, {}, {"query"}, {}), required, {"query"})

\* postgrest/builder_is.rs
BuilderIs(x) ==
  LET required == {"query", "column", "filter"}
  IN  Plain(Def(required, {}, {}, {"query"}, {}), required, {"query"})

\* postgrest/builder_not.rs
BuilderNot(x) ==
  LET required == {"query", "operator", "column", "filter"}
  IN  Plain(Def(required, {}, {}, {"query"}, {}), required, {"query"})

\* postgrest/builder_insert.rs
BuilderInsert(x) ==
  LET required == {"query", "body"}
  IN  Plain(Def(required, {}, {}, {"query"}, {}), required, {"query"})

\* postgrest/builder_update.rs
BuilderUpdate(x) ==
  LET required == {"query", "body"}
  IN  Plain(Def(required, {}, {}, {"query"}, {}), required, {"query"})

\* postgrest/builder_upsert.rs
BuilderUpsert(x) ==
  LET required == {"query", "body"}
  IN  Plain(Def(required, {}, {}, {"query"}, {}), required, {"query"})

\* postgrest/builder_match.rs
BuilderMatch(x) ==
  LET required == {"query", "body"}
      Nested == "a value is an array or an object"
  IN  [ Plain(Def(required, {}, {}, {"query"}, {}), required, {"query"}) EXCEPT
          !.facts = {Nested},
          !.refuses = Nested \in x ]

\* postgrest/builder_limit.rs
BuilderLimit(x) ==
  LET required == {"query", "count"}
  IN  Plain(Def(required, {}, {}, {"query"}, {}), required, {"query"})

\* postgrest/builder_select.rs
BuilderSelect(x) ==
  LET required == {"query", "columns"}
  IN  Plain(Def(required, {}, {}, {"query"}, {}), required, {"query"})

\* postgrest/builder_order.rs
BuilderOrder(x) ==
  LET required == {"query", "columns"}
  IN  Plain(Def(required, {}, {}, {"query"}, {}), required, {"query"})

\* postgrest/new_query.rs
NewQuery(x) ==
  LET required == {"table"}
  IN  Plain(Def(required, {"url", "schema"}, {}, {"query"}, {}),
              required, {"query"})

\* postgrest/new_rpc.rs
NewRpc(x) ==
  LET required == {"function", "params"}
  IN  Plain(Def(required, {"url", "schema"}, {}, {"query"}, {}),
              required, {"query"})

\* postgrest/execute_query.rs
ExecuteQuery(x) ==
  LET required == {"query"}
  IN  [ Plain(Def(required, {"headers"}, {}, {"result", "headers"}, {}),
              required, {"result", "headers"}) EXCEPT
          !.asks = TRUE,
          !.jwt = TRUE,
          !.permitted = TRUE ]

\* The checks of http_request: the address of the host, or every address its name
\* has, must be global.
NotGlobal == "an address of the host is not global"
NoHost == "the URL has no host"

\* http_request.rs
HttpRequest(x) ==
  LET required == {"url"}
  IN  [ Plain(Def(required,
                  {"method", "headers", "basic_auth", "query_params", "body", "form"},
                  {},
                  {"body", "headers"}, {}),
              required, {"body", "headers"}) EXCEPT
          !.asks = TRUE,
          !.facts = {NotGlobal, NoHost},
          !.refuses = {NotGlobal, NoHost} \cap x # {} ]

\* gen_metaplex_attrs.rs
GenMetaplexAttrs(x) ==
  LET required == {"attributes"}
  IN  [ Plain(Def(required, {}, {}, {"attributes"}, {}),
              {"attributes", "effects"}, {"attributes"}) EXCEPT !.asks = TRUE ]

\* gen_pdg_attrs.rs
GenPdgAttrs(x) ==
  LET required == {}
  IN  [ Plain(Def(required,
                  {"attributes", "gen_human_readable", "flag"},
                  {},
                  {"attributes"}, {}),
              required, {"attributes"}) EXCEPT !.asks = TRUE ]

\* generate_base.rs
GenerateBase(x) ==
  LET required == {}
  IN  [ Plain(Def(required, {"seed", "defaults"}, {}, {"attributes"}, {}),
              required, {"attributes"}) EXCEPT !.asks = TRUE ]

\* get_effect_list.rs
GetEffectList(x) ==
  LET required == {"attributes"}
  IN  Plain(Def(required, {}, {}, {"effects"}, {}), required, {"effects"})

\* parse_pdg_attrs.rs
ParsePdgAttrs(x) ==
  LET required == {"attributes"}
  IN  [ Plain(Def(required,
                  {"check_human_readable", "defaults"},
                  {},
                  {"attributes"}, {}),
              required, {"attributes"}) EXCEPT !.asks = TRUE ]

\* pdg_render.rs
PdgRenderNode(x) ==
  LET required == {}
  IN  [ Plain(Def(required,
                  {"url", "rand_seed", "attributes", "headers"},
                  {},
                  {"metadata", "metadata_url", "main_image_url", "sketch_image_url"}, {}),
              required, {"main_image_url", "sketch_image_url", "metadata_url",
               "metadata"}) EXCEPT !.asks = TRUE ]

\* push_effect_list.rs
PushEffectList(x) ==
  LET required == {"effects", "element"}
  IN  Plain(Def(required, {}, {}, {"effects"}, {}), required, {"effects"})

\* update_render_params.rs
UpdateRenderParams(x) ==
  LET required == {"params", "effect"}
  IN  Plain(Def(required, {}, {}, {"params"}, {}), required, {"params"})

\* The commands of this module, by the name of their node.
StdNames ==
  {"const", "print", "note", "wait", "flow_run_info", "json_extract", "json_insert",
    "json_get_field", "to_string", "to_vec", "to_bytes", "range", "kv_create_store",
    "kv_delete_store", "kv_write_item", "kv_read_item", "kvexplorer",
    "storage_download", "storage_delete", "storage_get_file_metadata",
    "storage_get_public_url", "storage_create_signed_url", "storage_list",
    "storage_upload", "fileexplorer", "supabase", "postgrest_builder_eq",
    "postgrest_builder_neq", "postgrest_builder_is", "postgrest_builder_not",
    "postgrest_builder_insert", "postgrest_builder_update", "postgrest_builder_upsert",
    "postgrest_builder_match", "postgrest_builder_limit", "postgrest_builder_select",
    "postgrest_builder_order", "postgrest_new_query", "postgrest_new_rpc",
    "postgrest_execute_query", "http_request", "gen_metaplex_attrs", "gen_pdg_attrs",
    "generate_base", "get_effect_list", "parse_pdg_attrs", "pdg_render",
    "push_effect_list", "update_render_params"}

StdCommand(c, x) ==
  CASE c = "const" -> Const(x)
    [] c = "print" -> PrintNode(x)
    [] c = "note" -> Note(x)
    [] c = "wait" -> Wait(x)
    [] c = "flow_run_info" -> FlowRunInfo(x)
    [] c = "json_extract" -> JsonExtract(x)
    [] c = "json_insert" -> JsonInsert(x)
    [] c = "json_get_field" -> JsonGetField(x)
    [] c = "to_string" -> ToStringNode(x)
    [] c = "to_vec" -> ToVec(x)
    [] c = "to_bytes" -> ToBytes(x)
    [] c = "range" -> RangeNode(x)
    [] c = "kv_create_store" -> KvCreateStore(x)
    [] c = "kv_delete_store" -> KvDeleteStore(x)
    [] c = "kv_write_item" -> KvWriteItem(x)
    [] c = "kv_read_item" -> KvReadItem(x)
    [] c = "kvexplorer" -> KvExplorer(x)
    [] c = "storage_download" -> StorageDownload(x)
    [] c = "storage_delete" -> StorageDelete(x)
    [] c = "storage_get_file_metadata" -> StorageGetFileMetadata(x)
    [] c = "storage_get_public_url" -> StorageGetPublicUrl(x)
    [] c = "storage_create_signed_url" -> StorageCreateSignedUrl(x)
    [] c = "storage_list" -> StorageList(x)
    [] c = "storage_upload" -> StorageUpload(x)
    [] c = "fileexplorer" -> FileExplorer(x)
    [] c = "supabase" -> Supabase(x)
    [] c = "postgrest_builder_eq" -> BuilderEq(x)
    [] c = "postgrest_builder_neq" -> BuilderNeq(x)
    [] c = "postgrest_builder_is" -> BuilderIs(x)
    [] c = "postgrest_builder_not" -> BuilderNot(x)
    [] c = "postgrest_builder_insert" -> BuilderInsert(x)
    [] c = "postgrest_builder_update" -> BuilderUpdate(x)
    [] c = "postgrest_builder_upsert" -> BuilderUpsert(x)
    [] c = "postgrest_builder_match" -> BuilderMatch(x)
    [] c = "postgrest_builder_limit" -> BuilderLimit(x)
    [] c = "postgrest_builder_select" -> BuilderSelect(x)
    [] c = "postgrest_builder_order" -> BuilderOrder(x)
    [] c = "postgrest_new_query" -> NewQuery(x)
    [] c = "postgrest_new_rpc" -> NewRpc(x)
    [] c = "postgrest_execute_query" -> ExecuteQuery(x)
    [] c = "http_request" -> HttpRequest(x)
    [] c = "gen_metaplex_attrs" -> GenMetaplexAttrs(x)
    [] c = "gen_pdg_attrs" -> GenPdgAttrs(x)
    [] c = "generate_base" -> GenerateBase(x)
    [] c = "get_effect_list" -> GetEffectList(x)
    [] c = "parse_pdg_attrs" -> ParsePdgAttrs(x)
    [] c = "pdg_render" -> PdgRenderNode(x)
    [] c = "push_effect_list" -> PushEffectList(x)
    [] c = "update_render_params" -> UpdateRenderParams(x)

=============================================================================
