------------------------------ MODULE ApiCalls ------------------------------
(***************************************************************************)
(* The requests of the SDK client (anona/client.py) and of the data        *)
(* commands (anona/cli/memory.py, verbs.py, resources.py), as far as what  *)
(* happens to a request depends on them: the HTTP method, which decides    *)
(* whether a 5xx may be answered with the same request again; how the body *)
(* is filled, which decides what becomes of the fields a caller does not   *)
(* name; what the request does at the server; and what may be refused      *)
(* before anything is sent.                                                *)
(*                                                                         *)
(* Paths, parameters and texts are left out. A table has one field per     *)
(* method or command; Commands takes its requests from the tables.         *)
(***************************************************************************)
EXTENDS TLC

(* verb    the HTTP method                                                 *)
(* body    "whole": every key, nulls included; "given": only the keys the  *)
(*         caller named; "form": a multipart upload; "none"                *)
(* effect  what the server does with it                                    *)
(* check   "none", "local": the client or the command line may refuse it   *)
(*         unsent, "yes": refused unless confirmed with --yes              *)
Call(verb, body, effect) ==
  [verb |-> verb, body |-> body, effect |-> effect, check |-> "none"]

Read    == Call("GET", "none", "read")
Ask     == Call("POST", "given", "ask")        \* a search or an answer: billed, stores nothing
Create  == Call("POST", "given", "create")
Store   == Call("POST", "given", "store")      \* text to extract memories from
Begin   == Call("POST", "none", "create")      \* starts a job or clears a model
Upload  == Call("POST", "form", "store")
Replace == Call("PUT", "whole", "replace")
Change  == Call("PATCH", "given", "change")
Reset   == Call("DELETE", "none", "reset")
Remove  == Call("DELETE", "none", "remove")

Local(call)     == [call EXCEPT !.check = "local"]
Confirmed(call) == [call EXCEPT !.check = "yes"]

-----------------------------------------------------------------------------
(* The methods of AnonaClient.                                             *)

WriteMethods == [record |-> Local(Store), record_batch |-> Local(Store), get_job |-> Read]

SearchMethods == [retrieve |-> Local(Ask)]

ReceiptMethods == [retrieve_receipt |-> Ask, get_receipt |-> Read, explain |-> Read]

ContextMethods == [get_context |-> Ask]

ReasonMethods == [reason |-> Ask, reason_receipt |-> Ask]

UserMethods == [get_user_profile |-> Read, ask_about_user |-> Ask]

GraphMethods ==
  [list_spaces |-> Read, get_graph |-> Read, list_entities |-> Read, get_entity |-> Read]

UploadMethods == [upload_file |-> Local(Upload)]

SpaceMethods ==
  [create_space |-> Create, list_space_types |-> Read, list_documents |-> Read,
   delete_document |-> Remove, delete_space |-> Remove, delete_memory |-> Remove]

ExtractionMethods ==
  [get_extraction_settings |-> Read, set_extraction_settings |-> Replace,
   reset_extraction_settings |-> Reset]

ChatMethods ==
  [get_chat_settings |-> Read, set_chat_settings |-> Replace, reset_chat_settings |-> Reset]

WebhookMethods ==
  [create_webhook |-> Create, list_webhooks |-> Read, update_webhook |-> Change,
   delete_webhook |-> Remove, list_webhook_deliveries |-> Read]

MemoryMethods ==
  [get_space |-> Read, list_memories |-> Read, get_memory_history |-> Read,
   update_memory |-> Change]

ReasonSettingsMethods ==
  [get_usage |-> Read, get_document |-> Read, cancel_job |-> Remove,
   get_reason_settings |-> Read, set_reason_settings |-> Replace,
   reset_reason_settings |-> Reset]

RuleMethods ==
  [list_rules |-> Read, create_rule |-> Create, update_rule |-> Change, delete_rule |-> Remove]

ModelMethods ==
  [list_memory_models |-> Read, create_memory_model |-> Create, get_memory_model |-> Read,
   update_memory_model |-> Change, delete_memory_model |-> Remove,
   refresh_memory_model |-> Begin, clear_memory_model |-> Begin,
   get_memory_model_history |-> Read]

ProfileMethods ==
  [get_space_profile |-> Read, set_space_profile |-> Replace, reset_space_profile |-> Reset,
   list_catalog_models |-> Read]

SyncMethods ==
  WriteMethods @@ SearchMethods @@ ReceiptMethods @@ ContextMethods @@ ReasonMethods
  @@ UserMethods @@ GraphMethods @@ UploadMethods @@ SpaceMethods @@ ExtractionMethods
  @@ ChatMethods @@ WebhookMethods @@ MemoryMethods @@ ReasonSettingsMethods
  @@ RuleMethods @@ ModelMethods @@ ProfileMethods

(* The async_ twins, under the names of the methods they mirror.           *)

AsyncWriteMethods ==
  [record |-> Local(Store), record_batch |-> Local(Store), get_job |-> Read,
   retrieve |-> Local(Ask)]

AsyncReceiptMethods ==
  [retrieve_receipt |-> Ask, get_receipt |-> Read, explain |-> Read, get_context |-> Ask]

AsyncReasonMethods ==
  [reason |-> Ask, reason_receipt |-> Ask, get_user_profile |-> Read, ask_about_user |-> Ask]

AsyncSpaceMethods ==
  [list_spaces |-> Read, get_graph |-> Read, list_entities |-> Read, get_entity |-> Read,
   upload_file |-> Local(Upload), create_space |-> Create, list_space_types |-> Read,
   list_documents |-> Read, delete_document |-> Remove, delete_space |-> Remove,
   delete_memory |-> Remove]

AsyncSettingsMethods ==
  [get_extraction_settings |-> Read, set_extraction_settings |-> Replace,
   reset_extraction_settings |-> Reset, get_chat_settings |-> Read,
   set_chat_settings |-> Replace, reset_chat_settings |-> Reset]

AsyncWebhookMethods ==
  [create_webhook |-> Create, list_webhooks |-> Read, update_webhook |-> Change,
   delete_webhook |-> Remove, list_webhook_deliveries |-> Read]

AsyncMemoryMethods ==
  [get_space |-> Read, list_memories |-> Read, get_memory_history |-> Read,
   update_memory |-> Change, get_usage |-> Read, get_document |-> Read,
   cancel_job |-> Remove]

AsyncRuleMethods ==
  [get_reason_settings |-> Read, set_reason_settings |-> Replace,
   reset_reason_settings |-> Reset, list_rules |-> Read, create_rule |-> Create,
   update_rule |-> Change, delete_rule |-> Remove]

AsyncModelMethods ==
  [list_memory_models |-> Read, create_memory_model |-> Create, get_memory_model |-> Read,
   update_memory_model |-> Change, delete_memory_model |-> Remove,
   refresh_memory_model |-> Begin, clear_memory_model |-> Begin,
   get_memory_model_history |-> Read]

AsyncProfileMethods ==
  [get_space_profile |-> Read, set_space_profile |-> Replace, reset_space_profile |-> Reset,
   list_catalog_models |-> Read]

AsyncMethods ==
  AsyncWriteMethods @@ AsyncReceiptMethods @@ AsyncReasonMethods @@ AsyncSpaceMethods
  @@ AsyncSettingsMethods @@ AsyncWebhookMethods @@ AsyncMemoryMethods
  @@ AsyncRuleMethods @@ AsyncModelMethods @@ AsyncProfileMethods

(* The two halves of the class send the same requests.                     *)
ASSUME TwinsAgree == AsyncMethods = SyncMethods

-----------------------------------------------------------------------------
(* The data commands. Those that read a record, change the named fields    *)
(* and write it back are in MergeVerbs.                                    *)

RecordVerbs == [record |-> Local(Store), record_batch |-> Local(Store)]

RetrieveVerbs == [retrieve |-> Local(Ask), retrieve_block |-> Local(Ask)]

ReasonVerbs == [reason |-> Local(Ask)]

UploadVerbs == [documents_upload |-> Local(Upload)]

ResourceVerbs ==
  [spaces_list |-> Read, spaces_create |-> Local(Create), spaces_get |-> Read,
   spaces_delete |-> Confirmed(Remove), usage |-> Read, llm_models |-> Read,
   memories_list |-> Read, memories_edit |-> Local(Change),
   memories_delete |-> Confirmed(Remove), memories_history |-> Read,
   documents_list |-> Read, documents_get |-> Read, documents_delete |-> Confirmed(Remove),
   settings_get |-> Read, settings_reset |-> Confirmed(Reset), jobs_get |-> Read,
   jobs_cancel |-> Confirmed(Remove), profile |-> Read, model |-> Read,
   user_profile |-> Read]

TableVerbs ==
  [models_list |-> Read, models_create |-> Local(Create), models_get |-> Read,
   models_edit |-> Local(Change), models_delete |-> Confirmed(Remove),
   models_refresh |-> Begin, models_clear |-> Confirmed(Begin), models_history |-> Read,
   profile_reset |-> Confirmed(Reset), rules_list |-> Read, rules_add |-> Local(Create),
   rules_edit |-> Local(Change), rules_delete |-> Confirmed(Remove), webhooks_list |-> Read,
   webhooks_create |-> Create, webhooks_edit |-> Local(Change),
   webhooks_delete |-> Confirmed(Remove), webhooks_deliveries |-> Read, graph |-> Local(Read),
   graph_draw |-> Local(Ask), entities_list |-> Read, entities_get |-> Read,
   ask_user |-> Local(Ask), space_types |-> Read, chat |-> Local(Create), org |-> Read,
   orgs_list |-> Read, projects_list |-> Read, keys_list |-> Read, members_list |-> Read,
   members_me |-> Read, members_invitations |-> Read, invitations_pending |-> Read,
   invitations_accept |-> Create, invitations_decline |-> Create, billing |-> Read,
   billing_topups |-> Read, usage_history |-> Local(Read), usage_breakdown |-> Local(Read),
   exports_list |-> Read, exports_create |-> Begin, receipts_get |-> Local(Read),
   spaces_members_list |-> Read]

MergeVerbs ==
  [settings_set |-> Local(Replace), profile_set |-> Local(Replace),
   models_edit_trigger |-> Local(Change)]

-----------------------------------------------------------------------------
Rows(table) == {table[n] : n \in DOMAIN table}

(* What a program can send, and what a command line can.                   *)
Requests ==
  Rows(SyncMethods) \cup Rows(RecordVerbs) \cup Rows(RetrieveVerbs) \cup Rows(ReasonVerbs)
  \cup Rows(UploadVerbs) \cup Rows(ResourceVerbs) \cup Rows(TableVerbs)

(* What is sent after the record was read.                                 *)
Merges == Rows(MergeVerbs)

(* What a command may be told to wait for: the jobs of a queued write.     *)
Queued == Rows(RecordVerbs) \cup Rows(UploadVerbs)

=============================================================================
