----------------------------- MODULE Revisions -----------------------------
(***************************************************************************)
(* The six revisions under alembic/versions, statement by statement, and   *)
(* the tables the ORM models under app/models declare.  An index is named  *)
(* by its table and columns, as op.f does.  Statements of one revision     *)
(* that only create indexes of one table are in any order.                 *)
(***************************************************************************)
EXTENDS Schema

\* labels of the native enums, in the migrations
SizeLabels     == {"micro", "small", "medium", "large", "enterprise"}
TierLabels     == {"unverified", "phone", "email", "document"}
DocumentLabels == {"offer_letter", "payslip", "id_document", "other"}
DecisionLabels == {"pending", "approved", "rejected"}
ExitLabels     == {"MANAGEMENT", "COMPENSATION", "LAYOFFS", "CULTURE", "GROWTH",
                   "RELOCATION", "OTHER"}
TenureLabels   == {"LESS_THAN_1YR", "ONE_TO_3YR", "THREE_TO_5YR", "FIVE_PLUS_YR"}
LevelLabels    == {"IC", "MANAGER", "SENIOR_MANAGER", "DIRECTOR_PLUS"}
StatusLabels   == {"PENDING", "PUBLISHED", "REJECTED"}
SourceLabels   == {"SELF_REPORTED", "NEWS"}
ItemLabels     == {"REVIEW", "LAYOFF_EVENT"}
ActionLabels   == {"APPROVE", "REJECT"}
RequesterLabels == {"COURT_ORDER", "GOVERNMENT_DIRECTION", "COMPANY_LEGAL_REQUEST",
                    "USER_REPORT", "INTERNAL_MODERATION"}
GrievanceLabels == {"RECEIVED", "ACKNOWLEDGED", "RESOLVED"}

ReviewStatusType == Enum("review_status", StatusLabels)
ItemType         == Enum("moderated_item_type", ItemLabels)

-----------------------------------------------------------------------------
Upgrade0001 == <<
    CreateTable("companies",
        {"id", "name", "slug", "industry", "corporate_email_domains",
         "employee_size_bucket", "hq_location", "logo_url", "description",
         "created_at", "updated_at"},
        {{"name"}}, {}, {Enum("employee_size_bucket", SizeLabels)}),
    UniqueIndex("companies", "slug"),
    CreateTable("users", {"id", "phone_hash", "verification_tier", "created_at"},
        {}, {}, {Enum("verification_tier", TierLabels)}),
    UniqueIndex("users", "phone_hash") >>

\* the types outlive their tables
Downgrade0001KeepsTypes == <<
    DropIndex("users", <<"phone_hash">>), DropTable("users"),
    DropIndex("companies", <<"slug">>), DropTable("companies") >>

Downgrade0001 == <<
    DropIndex("users", <<"phone_hash">>), DropTable("users"),
    DropIndex("companies", <<"slug">>), DropTable("companies"),
    DropType("verification_tier"), DropType("employee_size_bucket") >>

Upgrade0002 ==
    << AddColumn("users", "email_domain_hash"),
       CreateIndex("users", <<"email_domain_hash">>),
       CreateTable("otp_codes",
           {"id", "phone_hash", "otp_hash", "attempts", "expires_at", "consumed_at",
            "created_at"}, {}, {}, {}) >>
    \o Indexes("otp_codes", {"phone_hash", "created_at"})
    \o << CreateTable("email_verification_codes",
           {"id", "user_id", "email_hash", "domain_hash", "code_hash", "attempts",
            "expires_at", "consumed_at", "created_at"}, {}, {"users"}, {}) >>
    \o Indexes("email_verification_codes", {"user_id", "created_at"})
    \o << CreateTable("moderation_queue",
           {"id", "user_id", "doc_type", "content_hash", "ephemeral_path", "status",
            "created_at", "reviewed_at"}, {}, {"users"},
           {Enum("document_type", DocumentLabels),
            Enum("moderation_status", DecisionLabels)}) >>
    \o Indexes("moderation_queue", {"user_id", "content_hash", "created_at"})

Downgrade0002 == <<
    DropIndex("moderation_queue", <<"created_at">>),
    DropIndex("moderation_queue", <<"content_hash">>),
    DropIndex("moderation_queue", <<"user_id">>), DropTable("moderation_queue"),
    DropIndex("email_verification_codes", <<"created_at">>),
    DropIndex("email_verification_codes", <<"user_id">>),
    DropTable("email_verification_codes"),
    DropIndex("otp_codes", <<"created_at">>), DropIndex("otp_codes", <<"phone_hash">>),
    DropTable("otp_codes"),
    DropIndex("users", <<"email_domain_hash">>), DropColumn("users", "email_domain_hash"),
    DropType("moderation_status"), DropType("document_type") >>

Upgrade0003 ==
    << CreateTable("reviews",
           {"id", "user_id", "company_id", "exit_reason", "tenure_bucket", "department",
            "role_level", "is_current_employee", "prose", "status", "created_at"},
           {{"user_id", "company_id"}}, {"users", "companies"},
           {Enum("exit_reason", ExitLabels), Enum("tenure_bucket", TenureLabels),
            Enum("role_level", LevelLabels), ReviewStatusType}) >>
    \o Indexes("reviews", {"user_id", "company_id"})
    \o << CreateTable("corroborations", {"id", "review_id", "user_id", "comment", "created_at"},
           {{"review_id", "user_id"}}, {"reviews", "users"}, {}) >>
    \o Indexes("corroborations", {"review_id", "user_id"})
    \o << CreateTable("layoff_events",
           {"id", "company_id", "event_date", "department", "estimated_headcount",
            "source_type", "source_url", "submitted_by_user_id", "status", "created_at"},
           {}, {"companies", "users"},
           {Enum("layoff_source_type", SourceLabels), ReviewStatusType}) >>
    \o Indexes("layoff_events", {"company_id", "event_date"})
    \o << CreateTable("employer_accounts",
           {"id", "company_id", "domain_hash", "verified", "created_at"},
           {{"company_id"}}, {"companies"}, {}) >>
    \o Indexes("employer_accounts", {"company_id", "domain_hash"})
    \o << CreateTable("employer_responses",
           {"id", "review_id", "employer_account_id", "response_text", "created_at"},
           {{"review_id"}}, {"reviews", "employer_accounts"}, {}) >>
    \o Indexes("employer_responses", {"review_id", "employer_account_id"})

Downgrade0003 == <<
    DropIndex("employer_responses", <<"employer_account_id">>),
    DropIndex("employer_responses", <<"review_id">>), DropTable("employer_responses"),
    DropIndex("employer_accounts", <<"domain_hash">>),
    DropIndex("employer_accounts", <<"company_id">>), DropTable("employer_accounts"),
    DropIndex("layoff_events", <<"event_date">>),
    DropIndex("layoff_events", <<"company_id">>), DropTable("layoff_events"),
    DropIndex("corroborations", <<"user_id">>),
    DropIndex("corroborations", <<"review_id">>), DropTable("corroborations"),
    DropIndex("reviews", <<"company_id">>), DropIndex("reviews", <<"user_id">>),
    DropTable("reviews"),
    DropType("layoff_source_type"), DropType("review_status"), DropType("role_level"),
    DropType("tenure_bucket"), DropType("exit_reason") >>

Upgrade0004 ==
    << AddColumn("reviews", "flagged_reason"), AddColumn("layoff_events", "flagged_reason"),
       CreateTable("admin_users", {"id", "email", "password_hash", "is_active", "created_at"},
           {{"email"}}, {}, {}),
       UniqueIndex("admin_users", "email"),
       CreateTable("moderation_audit_log",
           {"id", "actor_admin_id", "item_type", "item_id", "action", "reason", "created_at"},
           {}, {"admin_users"}, {ItemType, Enum("moderation_action", ActionLabels)}) >>
    \o Indexes("moderation_audit_log", {"actor_admin_id", "item_id"})
    \o << CreateTable("takedown_log_entries",
           {"id", "item_type", "item_id", "requester_type", "requester_detail", "complied",
            "reason", "created_at"},
           {}, {}, {ItemType, Enum("takedown_requester_type", RequesterLabels)}) >>
    \o Indexes("takedown_log_entries", {"item_id", "created_at"})
    \o << CreateTable("grievance_complaints",
           {"id", "complainant_contact", "subject", "description", "related_item_type",
            "related_item_id", "status", "sla_deadline", "created_at"},
           {}, {}, {ItemType, Enum("grievance_status", GrievanceLabels)}),
          CreateIndex("grievance_complaints", <<"sla_deadline">>) >>

\* moderated_item_type while moderation_audit_log still uses it
Downgrade0004Early == <<
    DropIndex("grievance_complaints", <<"sla_deadline">>), DropTable("grievance_complaints"),
    DropType("grievance_status"),
    DropIndex("takedown_log_entries", <<"created_at">>),
    DropIndex("takedown_log_entries", <<"item_id">>), DropTable("takedown_log_entries"),
    DropType("takedown_requester_type"), DropType("moderated_item_type"),
    DropIndex("moderation_audit_log", <<"item_id">>),
    DropIndex("moderation_audit_log", <<"actor_admin_id">>), DropTable("moderation_audit_log"),
    DropType("moderation_action"),
    DropIndex("admin_users", <<"email">>), DropTable("admin_users"),
    DropColumn("layoff_events", "flagged_reason"), DropColumn("reviews", "flagged_reason") >>

\* moderated_item_type is dropped only after all three tables that use it
Downgrade0004 == <<
    DropIndex("grievance_complaints", <<"sla_deadline">>), DropTable("grievance_complaints"),
    DropType("grievance_status"),
    DropIndex("takedown_log_entries", <<"created_at">>),
    DropIndex("takedown_log_entries", <<"item_id">>), DropTable("takedown_log_entries"),
    DropType("takedown_requester_type"),
    DropIndex("moderation_audit_log", <<"item_id">>),
    DropIndex("moderation_audit_log", <<"actor_admin_id">>), DropTable("moderation_audit_log"),
    DropType("moderation_action"), DropType("moderated_item_type"),
    DropIndex("admin_users", <<"email">>), DropTable("admin_users"),
    DropColumn("layoff_events", "flagged_reason"), DropColumn("reviews", "flagged_reason") >>

Upgrade0005 == << AddLabel("moderated_item_type", "DOCUMENT") >>

\* nothing: the label stays
Downgrade0005 == << >>

Upgrade0006 == << CreateIndex("reviews", <<"company_id", "status">>),
                  CreateIndex("layoff_events", <<"company_id", "status">>) >>

\* one of the two indexes stays
Downgrade0006Half == << DropIndex("layoff_events", <<"company_id", "status">>) >>

Downgrade0006 == << DropIndex("layoff_events", <<"company_id", "status">>),
                    DropIndex("reviews", <<"company_id", "status">>) >>

Latest == 6
Upgrade == <<Upgrade0001, Upgrade0002, Upgrade0003, Upgrade0004, Upgrade0005, Upgrade0006>>
Downgrade == <<Downgrade0001, Downgrade0002, Downgrade0003, Downgrade0004, Downgrade0005,
               Downgrade0006>>

\* the revisions of one Alembic run between two versions, 0 being base
Path(from, to) ==
    IF from <= to
    THEN [i \in 1..(to - from) |-> Upgrade[from + i]]
    ELSE [i \in 1..(from - to) |-> Downgrade[from + 1 - i]]

-----------------------------------------------------------------------------
(***************************************************************************)
(* app/models: what Base.metadata.create_all, which the tests use instead  *)
(* of the migrations, makes of the models.  The enum labels are those the  *)
(* Python enums give each column, names or values as the column says.      *)
(***************************************************************************)
UserModel == << CreateTable("users",
    {"id", "phone_hash", "email_domain_hash", "verification_tier", "created_at"},
    {}, {}, {Enum("verification_tier", {"unverified", "phone", "email", "document"})}),
    UniqueIndex("users", "phone_hash"), CreateIndex("users", <<"email_domain_hash">>) >>

CompanyEnumValues == {"1-10", "11-50", "51-200", "201-1000", "1000+"}

\* member names, not values
CompanyEnum == {"micro", "small", "medium", "large", "enterprise"}

CompanyModel == << CreateTable("companies",
    {"id", "name", "slug", "industry", "corporate_email_domains", "employee_size_bucket",
     "hq_location", "logo_url", "description", "created_at", "updated_at"},
    {{"name"}}, {}, {Enum("employee_size_bucket", CompanyEnum)}),
    UniqueIndex("companies", "slug") >>

CodeModels ==
    << CreateTable("otp_codes", {"id", "phone_hash", "otp_hash", "attempts", "expires_at",
           "consumed_at", "created_at"}, {}, {}, {}),
       CreateTable("email_verification_codes", {"id", "user_id", "email_hash", "domain_hash",
           "code_hash", "attempts", "expires_at", "consumed_at", "created_at"},
           {}, {"users"}, {}) >>
    \o Indexes("otp_codes", {"phone_hash", "created_at"})
    \o Indexes("email_verification_codes", {"user_id", "created_at"})

DocumentModel == << CreateTable("moderation_queue",
    {"id", "user_id", "doc_type", "content_hash", "ephemeral_path", "status", "created_at",
     "reviewed_at"}, {}, {"users"},
    {Enum("document_type", {"offer_letter", "payslip", "id_document", "other"}),
     Enum("moderation_status", {"pending", "approved", "rejected"})}) >>
    \o Indexes("moderation_queue", {"user_id", "content_hash", "created_at"})

PublicationStatus == Enum("review_status", {"PENDING", "PUBLISHED", "REJECTED"})

ReviewModel == << CreateTable("reviews",
    {"id", "user_id", "company_id", "exit_reason", "tenure_bucket", "department",
     "role_level", "is_current_employee", "prose", "status", "flagged_reason", "created_at"},
    {{"user_id", "company_id"}}, {"users", "companies"},
    {Enum("exit_reason", {"MANAGEMENT", "COMPENSATION", "LAYOFFS", "CULTURE", "GROWTH",
                          "RELOCATION", "OTHER"}),
     Enum("tenure_bucket", {"LESS_THAN_1YR", "ONE_TO_3YR", "THREE_TO_5YR", "FIVE_PLUS_YR"}),
     Enum("role_level", {"IC", "MANAGER", "SENIOR_MANAGER", "DIRECTOR_PLUS"}),
     PublicationStatus}),
    CreateIndex("reviews", <<"company_id", "status">>) >>
    \o Indexes("reviews", {"user_id", "company_id"})

CorroborationModel == << CreateTable("corroborations",
    {"id", "review_id", "user_id", "comment", "created_at"}, {{"review_id", "user_id"}},
    {"reviews", "users"}, {}) >>
    \o Indexes("corroborations", {"review_id", "user_id"})

LayoffModel == << CreateTable("layoff_events",
    {"id", "company_id", "event_date", "department", "estimated_headcount", "source_type",
     "source_url", "submitted_by_user_id", "status", "flagged_reason", "created_at"},
    {}, {"companies", "users"},
    {Enum("layoff_source_type", {"SELF_REPORTED", "NEWS"}), PublicationStatus}),
    CreateIndex("layoff_events", <<"company_id", "status">>) >>
    \o Indexes("layoff_events", {"company_id", "event_date"})

EmployerModels ==
    << CreateTable("employer_accounts",
           {"id", "company_id", "domain_hash", "verified", "created_at"},
           {{"company_id"}}, {"companies"}, {}),
       CreateTable("employer_responses",
           {"id", "review_id", "employer_account_id", "response_text", "created_at"},
           {{"review_id"}}, {"reviews", "employer_accounts"}, {}) >>
    \o Indexes("employer_accounts", {"company_id", "domain_hash"})
    \o Indexes("employer_responses", {"review_id", "employer_account_id"})

AdminModel == << CreateTable("admin_users",
    {"id", "email", "password_hash", "is_active", "created_at"}, {}, {}, {}),
    UniqueIndex("admin_users", "email") >>

ModeratedItem == Enum("moderated_item_type", {"REVIEW", "LAYOFF_EVENT", "DOCUMENT"})

AuditModel == << CreateTable("moderation_audit_log",
    {"id", "actor_admin_id", "item_type", "item_id", "action", "reason", "created_at"},
    {}, {"admin_users"},
    {ModeratedItem, Enum("moderation_action", {"APPROVE", "REJECT"})}) >>
    \o Indexes("moderation_audit_log", {"actor_admin_id", "item_id"})

TakedownModel == << CreateTable("takedown_log_entries",
    {"id", "item_type", "item_id", "requester_type", "requester_detail", "complied",
     "reason", "created_at"}, {}, {},
    {ModeratedItem,
     Enum("takedown_requester_type", {"COURT_ORDER", "GOVERNMENT_DIRECTION",
          "COMPANY_LEGAL_REQUEST", "USER_REPORT", "INTERNAL_MODERATION"})}) >>
    \o Indexes("takedown_log_entries", {"item_id", "created_at"})

GrievanceModel == << CreateTable("grievance_complaints",
    {"id", "complainant_contact", "subject", "description", "related_item_type",
     "related_item_id", "status", "sla_deadline", "created_at"}, {}, {},
    {ModeratedItem, Enum("grievance_status", {"RECEIVED", "ACKNOWLEDGED", "RESOLVED"})}),
    CreateIndex("grievance_complaints", <<"sla_deadline">>) >>

CreateAll == <<UserModel, CompanyModel, CodeModels, DocumentModel, ReviewModel,
    CorroborationModel, LayoffModel, EmployerModels, AdminModel, AuditModel,
    TakedownModel, GrievanceModel>>
=============================================================================
