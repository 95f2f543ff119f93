------------------------------- MODULE Schema -------------------------------
(* The tables of persistence/models as the database sees them: for every       *)
(* mapped class the column sets that are unique, the foreign keys with what    *)
(* the database does to a row when the row it refers to is deleted, and how    *)
(* the class marks a row as deleted: a Boolean column, the one-character       *)
(* string of SoftDeleteMixin, or not at all.  Other columns, column types,     *)
(* plain indexes, relationship() attributes and to_dict() are left out.        *)
EXTENDS FiniteSets

Model(flag, keys, refs) == [flag |-> flag, keys |-> keys \cup {{"id"}}, refs |-> refs]

ForeignKey(col, to, on, required) ==
    {[col |-> col, to |-> to, on |-> on, required |-> required]}

Needs(col, to)   == ForeignKey(col, to, "restrict", TRUE)
May(col, to)     == ForeignKey(col, to, "restrict", FALSE)
OwnedBy(col, to) == ForeignKey(col, to, "cascade", TRUE)
Within(col, to)  == ForeignKey(col, to, "cascade", FALSE)
Linked(col, to)  == ForeignKey(col, to, "null", FALSE)
Audited          == Needs("created_by", "user") \cup May("updated_by", "user")
-----------------------------------------------------------------------------
ApiKey == Model("none", {{"key_hash"}}, Needs("user_id", "user"))

ApiLk == Model("none", {{"urn"}, {"method", "endpoint"}}, {})

AuditLog == Model("none", {}, May("actor_id", "user"))

Cart == Model("none", {{"urn"}},
          May("user_id", "user") \cup May("organization_id", "organizations") \cup
          May("created_by", "user") \cup May("updated_by", "user"))
CartItem == Model("none", {{"urn"}},
          OwnedBy("cart_id", "cart") \cup May("product_id", "product"))

ConsentRecord == Model("none", {}, OwnedBy("user_id", "user"))

Conversation == Model("none", {},
          Needs("user_id", "user") \cup May("session_id", "sessions"))
ConversationMessage == Model("none", {}, Needs("conversation_id", "conversations"))

CountryLk == Model("none", {{"urn"}, {"code"}}, {})

Coupon == Model("none", {{"code"}}, {})

CrowdfundingCampaign == Model("string", {{"urn"}, {"creator_user_id", "slug"}},
          OwnedBy("creator_user_id", "user") \cup
          Linked("organization_id", "organizations"))
CrowdfundingReward == Model("string", {{"urn"}},
          OwnedBy("campaign_id", "crowdfunding_campaign"))
CrowdfundingPledge == Model("none", {{"urn"}, {"idempotency_key"}},
          OwnedBy("campaign_id", "crowdfunding_campaign") \cup
          Linked("reward_id", "crowdfunding_reward") \cup
          OwnedBy("backer_user_id", "user"))

DataExportRequest == Model("none", {}, OwnedBy("user_id", "user"))

Document == Model("none", {},
          Needs("user_id", "user") \cup May("session_id", "sessions") \cup
          May("organization_id", "organizations"))

EducationLevelLk == Model("none", {{"urn"}, {"code"}}, {})

GenderLk == Model("none", {{"code"}, {"urn"}}, {})

HealthcareFacility == Model("string", {{"urn"}, {"facility_code"}},
          Linked("organization_id", "organizations"))
HealthcarePatient == Model("string", {{"urn"}, {"organization_id", "patient_key"}},
          OwnedBy("organization_id", "organizations") \cup Linked("user_id", "user"))
HealthcarePractitioner ==
    Model("string", {{"urn"}, {"organization_id", "practitioner_key"}},
          OwnedBy("organization_id", "organizations") \cup Linked("user_id", "user"))
ClinicalEncounter == Model("string", {{"urn"}, {"facility_id", "encounter_key"}},
          OwnedBy("patient_id", "healthcare_patient") \cup
          OwnedBy("facility_id", "healthcare_facility"))
ClinicalEncounterParticipant ==
    Model("string", {{"urn"}, {"encounter_id", "practitioner_id"}},
          OwnedBy("encounter_id", "clinical_encounter") \cup
          OwnedBy("practitioner_id", "healthcare_practitioner"))

IdempotencyRecord == Model("none", {{"key_hash"}}, Linked("user_id", "user"))

IndustrialFacility == Model("string", {{"urn"}, {"facility_code"}},
          Linked("organization_id", "organizations"))
IndustrialAsset == Model("string", {{"urn"}},
          OwnedBy("facility_id", "industrial_facility") \cup
          Linked("parent_asset_id", "industrial_asset"))
IndustrialIoTDevice == Model("string", {{"urn"}, {"facility_id", "device_key"}},
          OwnedBy("facility_id", "industrial_facility") \cup
          Linked("asset_id", "industrial_asset"))
IndustrialTelemetryChannel == Model("string", {{"urn"}, {"device_id", "channel_key"}},
          OwnedBy("device_id", "industrial_iot_device"))
IndustrialTelemetrySample == Model("none", {{"urn"}},
          OwnedBy("channel_id", "industrial_telemetry_channel"))

Invoice == Model("none", {{"urn"}, {"provider_id", "external_id"}},
          Needs("user_id", "user") \cup
          May("payment_transaction_id", "payment_transaction") \cup
          May("user_subscription_id", "user_subscription") \cup
          May("provider_id", "payment_provider_lk") \cup
          Needs("status_id", "status_lk"))

LanguageLk == Model("none", {{"urn"}, {"code"}}, {})

LedgerBalanceAlert == Model("none", {{"urn"}, {"ledger_workspace_id"}},
          OwnedBy("user_id", "user") \cup
          OwnedBy("ledger_workspace_id", "ledger_workspace"))

LedgerBudget == Model("none", {{"urn"}, {"ledger_workspace_id", "client_budget_id"}},
          OwnedBy("user_id", "user") \cup
          OwnedBy("ledger_workspace_id", "ledger_workspace"))

LedgerCustomCategory ==
    Model("none", {{"urn"}, {"ledger_workspace_id", "client_category_id"}},
          OwnedBy("user_id", "user") \cup
          OwnedBy("ledger_workspace_id", "ledger_workspace"))

LedgerDebt == Model("none", {{"urn"}, {"ledger_workspace_id", "client_debt_id"}},
          OwnedBy("user_id", "user") \cup
          OwnedBy("ledger_workspace_id", "ledger_workspace"))
LedgerDebtPayment ==
    Model("none", {{"urn"}, {"ledger_debt_id", "client_debt_payment_id"}},
          OwnedBy("user_id", "user") \cup OwnedBy("ledger_debt_id", "ledger_debt"))
LedgerDebtCredit ==
    Model("none", {{"urn"}, {"ledger_debt_id", "client_debt_credit_id"}},
          OwnedBy("user_id", "user") \cup OwnedBy("ledger_debt_id", "ledger_debt"))

LedgerEmiLoan == Model("none", {{"urn"}, {"ledger_workspace_id", "client_emi_loan_id"}},
          OwnedBy("user_id", "user") \cup
          OwnedBy("ledger_workspace_id", "ledger_workspace"))

LedgerGoal == Model("none", {{"urn"}, {"ledger_workspace_id", "client_goal_id"}},
          OwnedBy("user_id", "user") \cup
          OwnedBy("ledger_workspace_id", "ledger_workspace"))
LedgerGoalContribution ==
    Model("none", {{"urn"}, {"ledger_goal_id", "client_contribution_id"}},
          OwnedBy("user_id", "user") \cup OwnedBy("ledger_goal_id", "ledger_goal"))

LedgerInvoiceDocument ==
    Model("none", {{"urn"}, {"ledger_workspace_id", "client_invoice_id"}},
          OwnedBy("user_id", "user") \cup
          OwnedBy("ledger_workspace_id", "ledger_workspace"))
LedgerBusinessInfo == Model("none", {{"urn"}, {"user_id"}}, OwnedBy("user_id", "user"))

LedgerLinkedAccount ==
    Model("none", {{"urn"}, {"ledger_workspace_id", "client_linked_account_id"}},
          OwnedBy("user_id", "user") \cup
          OwnedBy("ledger_workspace_id", "ledger_workspace"))

LedgerRecurringTransaction ==
    Model("none", {{"urn"}, {"ledger_workspace_id", "client_recurring_id"}},
          OwnedBy("user_id", "user") \cup
          OwnedBy("ledger_workspace_id", "ledger_workspace"))

LedgerScheduledReminder == Model("none", {{"urn"}, {"user_id", "client_reminder_id"}},
          OwnedBy("user_id", "user") \cup
          Within("ledger_workspace_id", "ledger_workspace"))

LedgerTransaction ==
    Model("none", {{"urn"}, {"ledger_workspace_id", "client_transaction_id"}},
          OwnedBy("user_id", "user") \cup
          OwnedBy("ledger_workspace_id", "ledger_workspace"))

LedgerVaultEntry ==
    Model("none", {{"urn"}, {"user_id", "ledger_workspace_id", "client_vault_entry_id"}},
          OwnedBy("user_id", "user") \cup
          OwnedBy("ledger_workspace_id", "ledger_workspace"))

LedgerWorkspace == Model("none", {{"urn"}, {"user_id", "client_workspace_id"}},
          OwnedBy("user_id", "user"))

LocationLk == Model("none", {{"urn"}, {"city", "state", "country_code", "pin_code"}},
          {})

Chat == Model("none", {},
          May("organization_id", "organizations") \cup
          Needs("created_by_user_id", "user"))
ChatParticipant == Model("none", {{"chat_id", "user_id"}},
          Needs("chat_id", "chats") \cup Needs("user_id", "user") \cup
          May("last_read_message_id", "chat_messages"))
ChatMessage == Model("none", {},
          Needs("chat_id", "chats") \cup May("sender_user_id", "user") \cup
          May("reply_to_message_id", "chat_messages"))
MessageReadReceipt == Model("none", {{"message_id", "user_id"}},
          Needs("message_id", "chat_messages") \cup Needs("user_id", "user"))
ChatMessageNotification ==
    Model("none", {{"message_id", "recipient_user_id", "channel"}},
          Needs("message_id", "chat_messages") \cup Needs("recipient_user_id", "user"))

NotificationHistory == Model("none", {}, Needs("user_id", "user"))

Order == Model("none", {{"urn"}, {"order_number"}},
          Needs("user_id", "user") \cup May("organization_id", "organizations") \cup
          May("cart_id", "cart") \cup Needs("status_id", "status_lk") \cup
          May("payment_transaction_id", "payment_transaction") \cup
          May("created_by", "user") \cup May("updated_by", "user"))
OrderItem == Model("none", {{"urn"}},
          OwnedBy("order_id", "orders") \cup May("product_id", "product"))

Organization == Model("none", {{"urn"}, {"slug"}}, Needs("owner_id", "user"))
OrganizationMember == Model("none", {},
          Needs("organization_id", "organizations") \cup Needs("user_id", "user"))
OrganizationInvite == Model("none", {{"token"}},
          Needs("organization_id", "organizations") \cup Needs("invited_by_id", "user"))

OutboxEvent == Model("none", {}, {})

PaymentMethodTypeLk == Model("none", {{"urn"}, {"code"}}, {})

PaymentProviderLk == Model("none", {{"urn"}, {"code"}}, {})

PaymentRefund ==
    Model("none", {{"urn"}, {"payment_transaction_id", "provider_refund_id"}},
          Needs("payment_transaction_id", "payment_transaction") \cup
          Needs("status_id", "payment_status_lk") \cup Audited)

PaymentStatusLk == Model("none", {{"urn"}, {"code"}}, {})

PaymentTransaction == Model("none", {{"urn"}, {"provider_id", "provider_payment_id"}},
          Needs("user_id", "user") \cup
          Needs("provider_id", "payment_provider_lk") \cup
          Needs("status_id", "payment_status_lk") \cup
          May("payment_method_type_id", "payment_method_type_lk") \cup Audited)

Plan == Model("none", {{"plan_code"}}, {})

Product == Model("none", {{"urn"}, {"organization_id", "sku"}},
          May("organization_id", "organizations") \cup May("created_by", "user") \cup
          May("updated_by", "user"))

Profile == Model("boolean", {{"urn"}, {"user_id"}},
          Needs("user_id", "user") \cup
          May("primary_photo_id", "user_profile_photo") \cup
          Needs("gender_id", "gender_lk") \cup
          Needs("education_level_id", "education_level_lk") \cup
          May("location_id", "location_lk") \cup Audited)

ReactionTypeLk == Model("none", {{"urn"}, {"code"}}, {})

RefreshToken == Model("none", {{"jti"}}, Needs("user_id", "user"))

Reminder == Model("none", {},
          OwnedBy("user_id", "user") \cup Needs("created_by", "user"))

SecurityEvent == Model("none", {},
          Linked("user_id", "user") \cup Linked("actor_user_id", "user"))

Session == Model("none", {}, Needs("user_id", "user"))

Shipment == Model("none", {{"urn"}},
          OwnedBy("order_id", "orders") \cup Needs("status_id", "status_lk"))

ShipmentTrackingLog == Model("none", {{"urn"}, {"shipment_id", "external_event_id"}},
          OwnedBy("shipment_id", "shipments"))

StatusLk == Model("none", {{"urn"}, {"code"}}, {})

StellarContract ==
    Model("none", {{"urn"}, {"ledger_workspace_id", "client_contract_id"}},
          OwnedBy("user_id", "user") \cup
          OwnedBy("ledger_workspace_id", "ledger_workspace"))
StellarContractHours ==
    Model("none", {{"urn"}, {"stellar_contract_id", "month", "year"}},
          OwnedBy("user_id", "user") \cup
          OwnedBy("stellar_contract_id", "stellar_contract"))
StellarContractPayment == Model("none", {{"urn"}},
          OwnedBy("user_id", "user") \cup
          OwnedBy("stellar_contract_id", "stellar_contract"))

Subscription == Model("boolean", {{"urn"}}, Needs("user_id", "user") \cup Audited)

SubscriptionPlanLk == Model("none", {{"urn"}, {"name"}}, {})

SystemSetting == Model("none", {{"namespace", "key"}}, {})

TransactionLog == Model("none", {{"urn"}, {"api_id", "reference_number"}},
          Needs("api_id", "api_lk") \cup Audited)

UsageCounter == Model("none", {{"user_id", "metric_key", "period_start"}},
          OwnedBy("user_id", "user") \cup Linked("organization_id", "organizations"))

User == Model("boolean", {{"urn"}, {"email"}, {"phone"}},
          Needs("user_type_id", "user_type_lk") \cup Audited)

UserDevice == Model("boolean", {{"urn"}, {"user_id", "device_fingerprint"}},
          Needs("user_id", "user") \cup Audited)

UserLanguage == Model("boolean", {{"urn"}, {"user_id", "language_id"}},
          Needs("user_id", "user") \cup Needs("language_id", "language_lk") \cup
          Audited)

UserLoginEvent == Model("none", {}, Linked("user_id", "user"))

UserMfaFactor == Model("none", {}, OwnedBy("user_id", "user"))

UserNotificationPreference == Model("none", {{"user_id", "channel", "category"}},
          Needs("user_id", "user"))

UserOneTimeToken == Model("none", {{"token_hash"}}, OwnedBy("user_id", "user"))

UserPaymentMethod ==
    Model("boolean", {{"urn"}, {"user_id", "provider_id", "provider_payment_method_id"}},
          Needs("user_id", "user") \cup
          Needs("provider_id", "payment_provider_lk") \cup
          Needs("payment_method_type_id", "payment_method_type_lk"))

UserProfilePhoto == Model("boolean", {{"urn"}, {"user_id"}},
          Needs("user_id", "user") \cup Audited)

UserProviderKey == Model("none", {{"user_id", "provider"}}, Needs("user_id", "user"))

UserSigningKey == Model("none", {{"user_id"}}, OwnedBy("user_id", "user"))

UserSubscription == Model("none", {{"urn"}, {"payment_transaction_id"}},
          Needs("user_id", "user") \cup
          Needs("subscription_plan_id", "subscription_plan_lk") \cup
          Needs("payment_transaction_id", "payment_transaction") \cup Audited)

UserTypeLk == Model("none", {{"urn"}, {"code"}}, {})

UserUsageAlertPreference == Model("none", {{"user_id"}}, Needs("user_id", "user"))

Webhook == Model("none", {}, May("user_id", "user"))

WebhookDelivery == Model("none", {{"webhook_id", "event_id"}},
          OwnedBy("webhook_id", "webhooks"))
-----------------------------------------------------------------------------
Tables ==
    [api_keys |-> ApiKey, api_lk |-> ApiLk, audit_log |-> AuditLog, cart |-> Cart,
     cart_item |-> CartItem, chat_message_notifications |-> ChatMessageNotification,
     chat_messages |-> ChatMessage, chat_participants |-> ChatParticipant,
     chats |-> Chat, clinical_encounter |-> ClinicalEncounter,
     clinical_encounter_participant |-> ClinicalEncounterParticipant,
     consent_records |-> ConsentRecord, conversation_messages |-> ConversationMessage,
     conversations |-> Conversation, country_lk |-> CountryLk, coupons |-> Coupon,
     crowdfunding_campaign |-> CrowdfundingCampaign,
     crowdfunding_pledge |-> CrowdfundingPledge,
     crowdfunding_reward |-> CrowdfundingReward,
     data_export_requests |-> DataExportRequest, documents |-> Document,
     education_level_lk |-> EducationLevelLk, gender_lk |-> GenderLk,
     healthcare_facility |-> HealthcareFacility,
     healthcare_patient |-> HealthcarePatient,
     healthcare_practitioner |-> HealthcarePractitioner,
     idempotency_records |-> IdempotencyRecord, industrial_asset |-> IndustrialAsset,
     industrial_facility |-> IndustrialFacility,
     industrial_iot_device |-> IndustrialIoTDevice,
     industrial_telemetry_channel |-> IndustrialTelemetryChannel,
     industrial_telemetry_sample |-> IndustrialTelemetrySample, invoices |-> Invoice,
     language_lk |-> LanguageLk, ledger_balance_alert |-> LedgerBalanceAlert,
     ledger_budget |-> LedgerBudget, ledger_business_info |-> LedgerBusinessInfo,
     ledger_custom_category |-> LedgerCustomCategory, ledger_debt |-> LedgerDebt,
     ledger_debt_credit |-> LedgerDebtCredit, ledger_debt_payment |-> LedgerDebtPayment,
     ledger_emi_loan |-> LedgerEmiLoan, ledger_goal |-> LedgerGoal,
     ledger_goal_contribution |-> LedgerGoalContribution,
     ledger_invoice_document |-> LedgerInvoiceDocument,
     ledger_linked_account |-> LedgerLinkedAccount,
     ledger_recurring_transaction |-> LedgerRecurringTransaction,
     ledger_scheduled_reminder |-> LedgerScheduledReminder,
     ledger_transaction |-> LedgerTransaction, ledger_vault_entry |-> LedgerVaultEntry,
     ledger_workspace |-> LedgerWorkspace, location_lk |-> LocationLk,
     message_read_receipts |-> MessageReadReceipt,
     notification_history |-> NotificationHistory, order_item |-> OrderItem,
     orders |-> Order, organization_invites |-> OrganizationInvite,
     organization_members |-> OrganizationMember, organizations |-> Organization,
     outbox_events |-> OutboxEvent, payment_method_type_lk |-> PaymentMethodTypeLk,
     payment_provider_lk |-> PaymentProviderLk, payment_refund |-> PaymentRefund,
     payment_status_lk |-> PaymentStatusLk, payment_transaction |-> PaymentTransaction,
     plans |-> Plan, product |-> Product, profile |-> Profile,
     reaction_type_lk |-> ReactionTypeLk, refresh_token |-> RefreshToken,
     reminder |-> Reminder, security_events |-> SecurityEvent, sessions |-> Session,
     shipment_tracking_log |-> ShipmentTrackingLog, shipments |-> Shipment,
     status_lk |-> StatusLk, stellar_contract |-> StellarContract,
     stellar_contract_hours |-> StellarContractHours,
     stellar_contract_payment |-> StellarContractPayment,
     subscription_plan_lk |-> SubscriptionPlanLk, subscriptions |-> Subscription,
     system_settings |-> SystemSetting, transaction_log |-> TransactionLog,
     usage_counters |-> UsageCounter, user |-> User, user_device |-> UserDevice,
     user_language |-> UserLanguage, user_llm_provider_keys |-> UserProviderKey,
     user_login_events |-> UserLoginEvent, user_mfa_factors |-> UserMfaFactor,
     user_notification_preference |-> UserNotificationPreference,
     user_one_time_tokens |-> UserOneTimeToken,
     user_payment_method |-> UserPaymentMethod, user_profile_photo |-> UserProfilePhoto,
     user_signing_key |-> UserSigningKey, user_subscription |-> UserSubscription,
     user_type_lk |-> UserTypeLk,
     user_usage_alert_preference |-> UserUsageAlertPreference,
     webhook_deliveries |-> WebhookDelivery, webhooks |-> Webhook]

Lookups == {"api_lk", "country_lk", "education_level_lk", "gender_lk", "language_lk",
            "location_lk", "payment_method_type_lk", "payment_provider_lk",
            "payment_status_lk", "reaction_type_lk", "status_lk",
            "subscription_plan_lk", "user_type_lk"}

ParentTables(t)  == {ref.to : ref \in Tables[t].refs} \ {t}
Required(t) == {ref \in Tables[t].refs : ref.required}
=============================================================================
